---- MODULE Spec2Model ----
(***************************************************************************)
(* Measurement extraction and validation engine of suihei-process          *)
(* (src/app.js, Appwrite server): getValue, extractValue,                  *)
(* processFileDataForMeasurements, processGValues and the per-file report  *)
(* assembled by GET /summary.                                              *)
(*                                                                         *)
(* Numbers.  A JavaScript number is carried as an integer count of         *)
(* 1/Scale units (Scale = 12000), so that every 3-decimal value and the    *)
(* mean of up to four of them is exact; NaN is a value of its own.         *)
(* Strings read from storage are sequences of one-character strings, so    *)
(* that parseFloat is a parser; strings produced for the report are TLA+   *)
(* strings built digit by digit by toFixed.                                *)
(***************************************************************************)
EXTENDS Integers, Sequences, FiniteSets, TLC

VARIABLES documents, measurements, measurementsAuth, gValue, fileData, pc,
          store, selected, failing, summary,
          content, rows, handler,
          session, files, access,
          sessions, issued, ended, now, fileDocs, reply,
          pool, tables, reqs

\* GET /summary for one file
engineVars == <<documents, measurements, measurementsAuth, gValue, fileData, pc>>

\* GET /summary for a selection of files
batchVars == <<store, selected, failing, summary>>

\* POST /upload
uploadVars == <<content, rows, handler>>

\* the session-authenticated server
webVars == <<session, files, access>>

\* the server with sessions kept in the database
authVars == <<sessions, issued, ended, now, fileDocs, reply>>

\* the Postgres tables, the connection pool and the requests under way
dbVars == <<pool, tables, reqs>>

vars == <<engineVars, batchVars, uploadVars, webVars, authVars, dbVars>>

----------------------------------------------------------------------------
(* JavaScript values *)

Scale == 12 * 1000

Null == [t |-> "null", n |-> 0, s |-> <<>>]

Undefined == [t |-> "undefined", n |-> 0, s |-> <<>>]

NaN == [t |-> "NaN", n |-> 0, s |-> <<>>]

Num(n) == [t |-> "number", n |-> n, s |-> <<>>]

Str(s) == [t |-> "string", n |-> 0, s |-> s]

\* the number i.fff, f given in thousandths (Dec(8, 400) is 8.4)
Dec(i, f) == Num((i * 1000 + f) * (Scale \div 1000))

Neg(v) == Num(0 - v.n)

IsNum(v) == v.t = "number"

DigitChars == <<"0", "1", "2", "3", "4", "5", "6", "7", "8", "9">>

IsDigit(c) == \E d \in 1..10 : DigitChars[d] = c

DigitVal(c) == (CHOOSE d \in 1..10 : DigitChars[d] = c) - 1

IsWhite(c) == c \in {" ", "\t", "\r", "\n"}

\* s without its leading white space
RECURSIVE TrimStart(_)
TrimStart(s) ==
  IF s # <<>> /\ IsWhite(Head(s)) THEN TrimStart(Tail(s)) ELSE s

\* the longest prefix of s made of digits
RECURSIVE DigitRun(_)
DigitRun(s) ==
  IF s # <<>> /\ IsDigit(Head(s)) THEN <<Head(s)>> \o DigitRun(Tail(s)) ELSE <<>>

\* the integer written by the digit sequence ds
RECURSIVE IntOf(_)
IntOf(ds) ==
  IF ds = <<>> THEN 0 ELSE IntOf(SubSeq(ds, 1, Len(ds) - 1)) * 10 + DigitVal(ds[Len(ds)])

\* the fraction .ds in units of 1/Scale, the first digit weighing w units
RECURSIVE FracOf(_, _)
FracOf(ds, w) ==
  IF ds = <<>> THEN 0 ELSE DigitVal(Head(ds)) * w + FracOf(Tail(ds), w \div 10)

\* parseFloat of a string: leading white space is skipped, then the longest
\* prefix  [+-] digits [. digits]  or  [+-] . digits  is read; NaN without one
ParseFloatStr(s) ==
  LET t0   == TrimStart(s)
      sign == IF t0 # <<>> /\ Head(t0) = "-" THEN 0 - 1 ELSE 1
      t1   == IF t0 # <<>> /\ Head(t0) \in {"-", "+"} THEN Tail(t0) ELSE t0
      ip   == DigitRun(t1)
      t2   == SubSeq(t1, Len(ip) + 1, Len(t1))
      fp   == IF t2 # <<>> /\ Head(t2) = "." THEN DigitRun(Tail(t2)) ELSE <<>>
  IN  IF ip = <<>> /\ fp = <<>> THEN NaN
      ELSE Num(sign * (IntOf(ip) * Scale + FracOf(fp, Scale \div 10)))

\* parseFloat(value): the argument is converted to a string first, so a
\* number parses to itself, NaN to NaN, null and undefined to NaN
parseFloat(v) ==
  CASE v.t = "number" -> v
    [] v.t = "string" -> ParseFloatStr(v.s)
    [] OTHER -> NaN

\* Math.abs
MathAbs(v) == IF IsNum(v) THEN Num(IF v.n < 0 THEN 0 - v.n ELSE v.n) ELSE NaN

\* a + b on numbers
Plus(a, b) == IF IsNum(a) /\ IsNum(b) THEN Num(a.n + b.n) ELSE NaN

\* a / k for a count k > 0
DivBy(a, k) == IF IsNum(a) THEN Num(a.n \div k) ELSE NaN

\* a >= b and a <= b on numbers: false as soon as one side is NaN
Geq(a, b) == IsNum(a) /\ IsNum(b) /\ a.n >= b.n

Leq(a, b) == IsNum(a) /\ IsNum(b) /\ a.n <= b.n

RECURSIVE IntStr(_)
IntStr(n) ==
  IF n < 10 THEN DigitChars[n + 1] ELSE IntStr(n \div 10) \o DigitChars[(n % 10) + 1]

\* Number.prototype.toFixed(3)
toFixed3(v) ==
  IF ~IsNum(v) THEN "NaN"
  ELSE LET a     == IF v.n < 0 THEN 0 - v.n ELSE v.n
           u     == Scale \div 1000
           milli == (a \div u) + (IF 2 * (a % u) >= u THEN 1 ELSE 0)
           fr    == milli % 1000
       IN  (IF v.n < 0 THEN "-" ELSE "") \o IntStr(milli \div 1000) \o "."
             \o DigitChars[(fr \div 100) + 1]
             \o DigitChars[((fr \div 10) % 10) + 1]
             \o DigitChars[(fr % 10) + 1]

----------------------------------------------------------------------------
(* JavaScript objects: key/value entries in insertion order *)

Keys(obj) == [i \in 1..Len(obj) |-> obj[i].key]

HasKey(obj, k) == \E i \in 1..Len(obj) : obj[i].key = k

Get(obj, k) == obj[CHOOSE i \in 1..Len(obj) : obj[i].key = k].val

\* obj[k] = v: an existing key keeps its place, a new key goes last
Put(obj, k, v) ==
  IF HasKey(obj, k)
  THEN [i \in 1..Len(obj) |-> IF obj[i].key = k THEN [key |-> k, val |-> v] ELSE obj[i]]
  ELSE Append(obj, [key |-> k, val |-> v])

----------------------------------------------------------------------------
(* Measurement configuration *)

Range(mn, mx) == [isNull |-> FALSE, min |-> mn, max |-> mx]

\* a label whose range is null
NoRange == [isNull |-> TRUE, min |-> Null, max |-> Null]

validationRanges ==
  << [key |-> "A",  val |-> Range(Dec(8, 0), Dec(8, 400))],
     [key |-> "B",  val |-> Range(Dec(37, 200), Dec(37, 800))],
     [key |-> "C",  val |-> Range(Dec(15, 700), Dec(16, 100))],
     [key |-> "D",  val |-> Range(Dec(23, 900), Dec(24, 300))],
     [key |-> "E",  val |-> Range(Dec(11, 200), Dec(11, 400))],
     [key |-> "F",  val |-> Range(Dec(3, 100), Dec(3, 300))],
     [key |-> "G1", val |-> Range(Dec(7, 800), Dec(8, 200))],
     [key |-> "G2", val |-> Range(Dec(7, 800), Dec(8, 200))],
     [key |-> "G3", val |-> Range(Dec(7, 800), Dec(8, 200))],
     [key |-> "G4", val |-> Range(Dec(7, 800), Dec(8, 200))],
     [key |-> "H",  val |-> Range(Dec(4, 900), Dec(5, 100))],
     [key |-> "I",  val |-> Range(Dec(29, 800), Dec(30, 200))],
     [key |-> "J",  val |-> Range(Dec(154, 900), Dec(155, 900))],
     [key |-> "K",  val |-> Range(Dec(82, 800), Dec(83, 400))],
     [key |-> "L",  val |-> Range(Dec(121, 800), Dec(122, 800))],
     [key |-> "M",  val |-> NoRange],
     [key |-> "N",  val |-> NoRange] >>

\* a rule { index, type, field, absolute }
Direct(i, t, f, a) ==
  [type |-> t, index |-> i, field |-> f, absolute |-> a, indices |-> <<>>]

\* a constituent { index, type, field } of an AVERAGE rule
Ref(i, t, f) == [index |-> i, type |-> t, field |-> f]

\* a rule { type: 'AVERAGE', indices, absolute: false }
Average(refs) ==
  [type |-> "AVERAGE", index |-> 0, field |-> "", absolute |-> FALSE, indices |-> refs]

\* a rule { type: 'MANUAL' | 'VISUAL', field: 'PassFail' }
ByHand(t) ==
  [type |-> t, index |-> 0, field |-> "PassFail", absolute |-> FALSE, indices |-> <<>>]

measurementMapping ==
  << [key |-> "A",  val |-> Direct(1, "PT-COMP", "x", TRUE)],
     [key |-> "B",  val |-> Direct(9, "CIRCLE", "diameter", FALSE)],
     [key |-> "C",  val |-> Direct(1, "DISTANCE", "y", TRUE)],
     [key |-> "D",  val |-> Direct(4, "PT-COMP", "x", TRUE)],
     [key |-> "E",  val |-> Direct(8, "CIRCLE", "diameter", FALSE)],
     [key |-> "F",  val |-> Average(<< Ref(2, "CIRCLE", "diameter"),
                                       Ref(4, "CIRCLE", "diameter"),
                                       Ref(5, "CIRCLE", "diameter"),
                                       Ref(6, "CIRCLE", "diameter") >>)],
     [key |-> "G1", val |-> Direct(10, "CIRCLE", "diameter", FALSE)],
     [key |-> "G2", val |-> Direct(11, "CIRCLE", "diameter", FALSE)],
     [key |-> "G3", val |-> Direct(12, "CIRCLE", "diameter", FALSE)],
     [key |-> "G4", val |-> Direct(13, "CIRCLE", "diameter", FALSE)],
     [key |-> "H",  val |-> Direct(2, "DISTANCE", "y", TRUE)],
     [key |-> "I",  val |-> Direct(15, "CIRCLE", "diameter", FALSE)],
     [key |-> "J",  val |-> Direct(7, "CIRCLE", "diameter", FALSE)],
     [key |-> "K",  val |-> Direct(2, "PT-COMP", "y", TRUE)],
     [key |-> "L",  val |-> Direct(14, "CIRCLE", "diameter", FALSE)],
     [key |-> "M",  val |-> ByHand("MANUAL")],
     [key |-> "N",  val |-> ByHand("VISUAL")] >>

----------------------------------------------------------------------------
(* Measurement processing functions *)

\* point[field]; a property the object does not have reads as undefined
FieldOf(point, field) ==
  IF field \in DOMAIN point THEN point[field] ELSE Undefined

\* dataPoints.find(p => p.index === index && p.data_type === type), as the
\* position of the first match, 0 when there is none
FindPoint(dataPoints, index, type) ==
  LET hits == {i \in 1..Len(dataPoints) :
                 dataPoints[i].index = index /\ dataPoints[i].data_type = type}
  IN  IF hits = {} THEN 0 ELSE CHOOSE i \in hits : \A j \in hits : i <= j

\* getValue finding the point by its index alone
getValue_IndexOnly(dataPoints, index, type, field) ==
  LET hits == {i \in 1..Len(dataPoints) : dataPoints[i].index = index}
  IN  IF hits = {} THEN Null
      ELSE LET value == FieldOf(dataPoints[CHOOSE i \in hits : \A j \in hits : i <= j], field)
           IN  IF value = Null \/ value = Undefined \/ value = Str(<<"-">>)
               THEN Null
               ELSE parseFloat(value)

\* getValue answering 0 for a point that is not there
getValue_MissingIsZero(dataPoints, index, type, field) ==
  LET at == FindPoint(dataPoints, index, type)
  IN  IF at = 0 THEN Num(0)
      ELSE LET value == FieldOf(dataPoints[at], field)
           IN  IF value = Null \/ value = Undefined \/ value = Str(<<"-">>)
               THEN Null
               ELSE parseFloat(value)

getValue(dataPoints, index, type, field) ==
  LET at == FindPoint(dataPoints, index, type)
  IN  IF at = 0 THEN Null
      ELSE LET value == FieldOf(dataPoints[at], field)
           IN  IF value = Null \/ value = Undefined \/ value = Str(<<"-">>)
               THEN Null
               ELSE parseFloat(value)

\* values.reduce((sum, v) => sum + v, 0)
RECURSIVE SumOf(_)
SumOf(values) ==
  IF values = <<>> THEN Num(0)
  ELSE Plus(SumOf(SubSeq(values, 1, Len(values) - 1)), values[Len(values)])

\* the values pushed by the loop over mapping.indices
ResolvedValues(dataPoints, indices) ==
  LET got == [i \in 1..Len(indices) |->
                getValue(dataPoints, indices[i].index, indices[i].type, indices[i].field)]
  IN  SelectSeq(got, LAMBDA v : v # Null)

\* extractValue dividing the sum by the number of constituents configured
extractValue_DivideByAll(dataPoints, mapping) ==
  IF mapping.type = "AVERAGE"
  THEN LET values == ResolvedValues(dataPoints, mapping.indices)
       IN  IF Len(values) = 0 THEN Null ELSE DivBy(SumOf(values), Len(mapping.indices))
  ELSE IF mapping.type = "MANUAL" \/ mapping.type = "VISUAL"
  THEN Null
  ELSE LET value == getValue(dataPoints, mapping.index, mapping.type, mapping.field)
       IN  IF value = Null THEN Null
           ELSE IF mapping.absolute THEN MathAbs(value) ELSE value

\* extractValue taking the magnitude whatever the absolute flag says
extractValue_AbsAlways(dataPoints, mapping) ==
  IF mapping.type = "AVERAGE"
  THEN LET values == ResolvedValues(dataPoints, mapping.indices)
       IN  IF Len(values) = 0 THEN Null ELSE DivBy(SumOf(values), Len(values))
  ELSE IF mapping.type = "MANUAL" \/ mapping.type = "VISUAL"
  THEN Null
  ELSE LET value == getValue(dataPoints, mapping.index, mapping.type, mapping.field)
       IN  IF value = Null THEN Null ELSE MathAbs(value)

extractValue(dataPoints, mapping) ==
  IF mapping.type = "AVERAGE"
  THEN LET values == ResolvedValues(dataPoints, mapping.indices)
       IN  IF Len(values) = 0 THEN Null ELSE DivBy(SumOf(values), Len(values))
  ELSE IF mapping.type = "MANUAL" \/ mapping.type = "VISUAL"
  THEN Null
  ELSE LET value == getValue(dataPoints, mapping.index, mapping.type, mapping.field)
       IN  IF value = Null THEN Null
           ELSE IF mapping.absolute THEN MathAbs(value) ELSE value

\* ResultFor comparing a null value with the band
ResultFor_NullCompared(value, range) ==
  [value   |-> IF value # Null THEN toFixed3(value) ELSE "-",
   isValid |-> IF ~range.isNull
               THEN Geq(value, range.min) /\ Leq(value, range.max)
               ELSE TRUE]

\* ResultFor with the ends of the band excluded
ResultFor_Strict(value, range) ==
  [value   |-> IF value # Null THEN toFixed3(value) ELSE "-",
   isValid |-> IF ~range.isNull /\ value # Null
               THEN Geq(value, range.min) /\ Leq(value, range.max)
                    /\ value # range.min /\ value # range.max
               ELSE TRUE]

\* the { value, isValid } stored under one key
ResultFor(value, range) ==
  [value   |-> IF value # Null THEN toFixed3(value) ELSE "-",
   isValid |-> IF ~range.isNull /\ value # Null
               THEN Geq(value, range.min) /\ Leq(value, range.max)
               ELSE TRUE]

processFileDataForMeasurements(dataPoints) ==
  [i \in 1..Len(measurementMapping) |->
     LET key == measurementMapping[i].key
     IN  [key |-> key,
          val |-> ResultFor(extractValue(dataPoints, measurementMapping[i].val),
                            Get(validationRanges, key))]]

gKeys == <<"G1", "G2", "G3", "G4">>

\* invalid.join(',')
RECURSIVE Join(_)
Join(names) ==
  IF names = <<>> THEN ""
  ELSE IF Len(names) = 1 THEN names[1]
  ELSE names[1] \o "," \o Join(Tail(names))

\* processGValues naming the first failing sub-label only
processGValues_FirstOnly(m) ==
  LET invalid == SelectSeq(gKeys, LAMBDA key :
                   HasKey(m, key) /\ ~Get(m, key).isValid /\ Get(m, key).value # "-")
  IN  IF Len(invalid) > 0
      THEN [value |-> invalid[1], isValid |-> FALSE]
      ELSE Get(m, "G1")

\* processGValues answering, when all pass, the first sub-label that was measured
processGValues_FirstMeasured(m) ==
  LET invalid  == SelectSeq(gKeys, LAMBDA key :
                    HasKey(m, key) /\ ~Get(m, key).isValid /\ Get(m, key).value # "-")
      measured == SelectSeq(gKeys, LAMBDA key : Get(m, key).value # "-")
  IN  IF Len(invalid) > 0
      THEN [value |-> Join(invalid), isValid |-> FALSE]
      ELSE IF Len(measured) > 0 THEN Get(m, measured[1]) ELSE Get(m, "G1")

processGValues(m) ==
  LET invalid == SelectSeq(gKeys, LAMBDA key :
                   HasKey(m, key) /\ ~Get(m, key).isValid /\ Get(m, key).value # "-")
  IN  IF Len(invalid) > 0
      THEN [value |-> Join(invalid), isValid |-> FALSE]
      ELSE Get(m, "G1")

----------------------------------------------------------------------------
(* The documents the storage returns for one file *)

MaxPoints == 2

\* the thousandth, the step by which a probe value leaves a band
Thousandth == Scale \div 1000

Types == {"CIRCLE", "PT-COMP", "DISTANCE"}

NumericFields == {"x", "y", "diameter"}

\* one file_data document
Doc(i, t, x, y, d) ==
  [index |-> i, data_type |-> t, x |-> x, y |-> y, z |-> Null,
   rot_x |-> Null, rot_y |-> Null, rot_z |-> Null, note |-> Str(<<>>),
   diameter |-> d, tolerance |-> Null]

\* a document holding v in field f and w in the other two numeric fields
DocWith(i, t, f, v, w) ==
  Doc(i, t, IF f = "x" THEN v ELSE w, IF f = "y" THEN v ELSE w,
      IF f = "diameter" THEN v ELSE w)

\* field contents that are not numbers
OddValues ==
  { Null, Undefined, Str(<<>>), Str(<<"-">>), Str(<<"a">>),
    Str(<<"8", ".", "2">>), Str(<<"-", "8", ".", "2">>), Str(<<" ", "8">>),
    Str(<<"1", "5", ".", "9", "m", "m">>), Str(<<".", "5">>) }

\* the labels derived by a direct lookup
DirectLabels ==
  {i \in 1..Len(measurementMapping) :
     measurementMapping[i].val.type \notin {"AVERAGE", "MANUAL", "VISUAL"}}

\* numbers on, just inside and just outside the band of the label at place i,
\* and their opposites
BandValues(i) ==
  LET r  == Get(validationRanges, measurementMapping[i].key)
      ns == { r.min.n, r.max.n, r.min.n - Thousandth, r.max.n + Thousandth,
              r.min.n + Thousandth }
  IN  {Num(n) : n \in ns} \cup {Num(0 - n) : n \in ns}

\* one document at the index of a direct rule
ProbeSets ==
  UNION { { <<DocWith(measurementMapping[i].val.index, t, f, v, w)>> :
              t \in Types, f \in NumericFields,
              v \in OddValues \cup BandValues(i), w \in {Null, Dec(1, 0)} } :
          i \in DirectLabels }

\* two documents sharing the index of a direct rule
PairValues(i) ==
  LET r == Get(validationRanges, measurementMapping[i].key)
  IN  {Null, r.min, Num(r.max.n + Thousandth), Neg(r.max)}

PairSets ==
  UNION { { << DocWith(measurementMapping[i].val.index, t1,
                       measurementMapping[i].val.field, v1, Null),
               DocWith(measurementMapping[i].val.index, t2,
                       measurementMapping[i].val.field, v2, Null) >> :
              t1 \in Types, t2 \in Types,
              v1 \in PairValues(i), v2 \in PairValues(i) } :
          i \in DirectLabels }

Absent == [t |-> "absent", n |-> 0, s |-> <<>>]

\* the CIRCLE documents at the indexes ixs, in that order, the one at ixs[k]
\* holding diameter ds[k] and left out when ds[k] is Absent
RECURSIVE Circles(_, _)
Circles(ixs, ds) ==
  IF ixs = <<>> THEN <<>>
  ELSE (IF Head(ds) = Absent THEN <<>>
        ELSE <<Doc(Head(ixs), "CIRCLE", Dec(1, 0), Dec(2, 0), Head(ds))>>)
       \o Circles(Tail(ixs), Tail(ds))

\* the bores G1..G4
GDiameters ==
  { Absent, Null, Str(<<"-">>), Str(<<>>),
    Dec(8, 0), Dec(9, 0), Dec(8, 100), Dec(7, 900) }

GSets == { Circles(<<10, 11, 12, 13>>, ds) : ds \in [1..4 -> GDiameters] }

\* the constituents of F
FDiameters ==
  { Absent, Null, Str(<<>>), Dec(3, 100), Dec(3, 300), Dec(3, 400), Neg(Dec(3, 200)) }

FSets == { Circles(<<2, 4, 5, 6>>, ds) : ds \in [1..4 -> FDiameters] }

\* up to MaxPoints documents in ascending order of index
SmallPoints ==
  { Doc(i, t, v, v, v) : i \in {1, 2}, t \in Types, v \in {Dec(8, 200), Neg(Dec(5, 0))} }

SmallSets ==
  UNION { { s \in [1..n -> SmallPoints] :
              \A k \in 1..(n - 1) : s[k].index <= s[k + 1].index } :
          n \in 0..MaxPoints }

DocumentSets == ProbeSets \cup PairSets \cup GSets \cup FSets \cup SmallSets

----------------------------------------------------------------------------
(* GET /summary for one selected file *)

NoResult == [value |-> "", isValid |-> FALSE]

FileIds == {"f1", "f2"}

\* no summary request handled yet
NoSummary == [status |-> "none", filesData |-> <<>>, fileData |-> <<>>]

BatchIdle ==
  /\ store = [f \in FileIds |-> <<>>]
  /\ selected = <<>>
  /\ failing = {}
  /\ summary = NoSummary

UploadIdle ==
  /\ content = <<>>
  /\ rows = <<>>
  /\ handler = "none"

\* no request handled yet
NoAccess ==
  [route |-> "none", session |-> FALSE, user |-> "none", form |-> <<>>,
   status |-> "none", read |-> {}, wrote |-> {}, failed |-> FALSE]

\* req.session before anyone has logged in
NoSession == [loggedIn |-> FALSE, username |-> "none"]

\* a row of files with the weight that file_weights holds for it, null when
\* it holds none
FileRow(weight) == [present |-> TRUE, weight |-> weight]

\* no row of files, and so none of file_weights
NoFile == [present |-> FALSE, weight |-> Null]

WebIdle ==
  /\ session = NoSession
  /\ files = [f \in FileIds |-> FileRow(Null)]
  /\ access = NoAccess

\* the response to a request: its route, the session_id cookie it carried,
\* the status, whether the handler behind the middleware ran, the login
\* form it posted, and whether a call to the database failed on the way
NoReply ==
  [route |-> "none", cookie |-> 0, status |-> "none", ran |-> FALSE,
   username |-> "", password |-> <<>>, failed |-> FALSE]

AuthIdle ==
  /\ sessions = {}
  /\ issued = {}
  /\ ended = {}
  /\ now = 0
  /\ fileDocs = [f \in FileIds |-> Null]
  /\ reply = NoReply

\* the tables files, file_data and file_weights
NoTables == [files |-> <<>>, file_data |-> {}, file_weights |-> {}, serial |-> 0]

DbIdle ==
  /\ pool = [server |-> "none", max |-> 1, busy |-> 0]
  /\ tables = NoTables
  /\ reqs = <<>>

EngineIdle ==
  /\ documents = <<>>
  /\ measurements = <<>>
  /\ measurementsAuth = <<>>
  /\ gValue = NoResult
  /\ fileData = <<>>
  /\ pc = "idle"

Init ==
  /\ documents \in DocumentSets
  /\ measurements = <<>>
  /\ measurementsAuth = <<>>
  /\ gValue = NoResult
  /\ fileData = <<>>
  /\ pc = "idle"
  /\ BatchIdle /\ UploadIdle /\ WebIdle /\ AuthIdle /\ DbIdle

\* { ...measurements, 'G': gValue }
Assemble(m, g) == Put(m, "G", g)

Summary ==
  /\ LET m == processFileDataForMeasurements(documents)
         g == processGValues(m)
     IN  /\ measurements' = m
         /\ gValue' = g
         /\ fileData' = Assemble(m, g)
  /\ pc' = "rendered"
  /\ UNCHANGED <<documents, measurementsAuth, batchVars, uploadVars, webVars, authVars, dbVars>>

Next == Summary

Spec == Init /\ [][Next]_vars

TypeOK ==
  /\ pc \in {"idle", "rendered"}
  /\ pc = "rendered" => Len(measurements) = Len(measurementMapping)

----------------------------------------------------------------------------
(* Properties of the rendered report *)

Rendered == pc = "rendered"

KeySet(obj) == {obj[i].key : i \in 1..Len(obj)}

ExposedLabels ==
  {"A", "B", "C", "D", "E", "F", "G", "H", "I", "J", "K", "L", "M", "N"}

\* the place of label k in the mapping table
PlaceOf(k) == CHOOSE i \in 1..Len(measurementMapping) : measurementMapping[i].key = k

RuleAt(i) == measurementMapping[i].val

RangeAt(i) == Get(validationRanges, measurementMapping[i].key)

CellAt(i) == measurements[i].val

\* the positions of the documents matching the key of the rule at place i
MatchesAt(i) ==
  {k \in 1..Len(documents) :
     documents[k].index = RuleAt(i).index /\ documents[k].data_type = RuleAt(i).type}

\* the value looked up for the direct rule at place i
LookupAt(i) == getValue(documents, RuleAt(i).index, RuleAt(i).type, RuleAt(i).field)

\* v lies in the band r, both ends included
InBand(v, r) == v.t = "number" /\ r.min.n <= v.n /\ v.n <= r.max.n

\* C1: the report handed to the renderer for a file has exactly the 14 labels
\* A..N as its keys; G1, G2, G3 and G4 are not among them.
C1_ReportHasFourteenLabels ==
  Rendered => KeySet(fileData) = ExposedLabels

\* the G sub-labels whose result is non-null and invalid
FailingG == {k \in 1..4 : LET c == Get(measurements, gKeys[k])
                          IN  c.value # "-" /\ ~c.isValid}

\* the names of the sub-labels numbered in ks, from G1 upwards
RECURSIVE ListFrom(_, _)
ListFrom(k, ks) ==
  IF k > 4 THEN ""
  ELSE IF k \notin ks THEN ListFrom(k + 1, ks)
  ELSE IF \E j \in ks : j > k THEN gKeys[k] \o "," \o ListFrom(k + 1, ks)
  ELSE gKeys[k]

FailExample ==
  Circles(<<10, 11, 12, 13>>, <<Dec(8, 0), Dec(9, 0), Null, Dec(8, 100)>>)

\* C2: when a G sub-label has a non-null value outside its band, the composite
\* G is invalid and its value lists, in the order G1 < G2 < G3 < G4, exactly
\* the sub-labels whose result is non-null and invalid; G1=8.000, G2=9.000,
\* G3=null, G4=8.100 gives {value: "G2", isValid: false}.
C2_FailingGListsFailingSubLabels ==
  Rendered =>
    /\ FailingG # {} =>
         /\ gValue = [value |-> ListFrom(1, FailingG), isValid |-> FALSE]
         /\ Get(fileData, "G") = gValue
    /\ documents = FailExample => gValue = [value |-> "G2", isValid |-> FALSE]

C2_Witness ==
  /\ Rendered
  /\ gValue = [value |-> "G2,G4", isValid |-> FALSE]
  /\ Get(measurements, "G1") = [value |-> "8.000", isValid |-> TRUE]
  /\ Get(measurements, "G3") = [value |-> "-", isValid |-> TRUE]

PassExample ==
  Circles(<<10, 11, 12, 13>>, <<Dec(8, 0), Dec(8, 100), Null, Dec(7, 900)>>)

\* C3: when each of G1..G4 is valid or null, the composite G is the G1 result
\* verbatim, whatever G2..G4 are; G1=8.000, G2=8.100, G3=null, G4=7.900 gives
\* {value: "8.000", isValid: true}.
C3_PassingGIsG1Verbatim ==
  Rendered =>
    /\ (\A k \in 1..4 : Get(measurements, gKeys[k]).isValid) =>
         /\ gValue = Get(measurements, "G1")
         /\ Get(fileData, "G") = Get(measurements, "G1")
    /\ documents = PassExample => gValue = [value |-> "8.000", isValid |-> TRUE]

C3_Witness ==
  /\ Rendered
  /\ Get(measurements, "G1") = [value |-> "-", isValid |-> TRUE]
  /\ Get(measurements, "G2") = [value |-> "8.100", isValid |-> TRUE]
  /\ Get(measurements, "G4") = [value |-> "7.900", isValid |-> TRUE]
  /\ gValue = [value |-> "-", isValid |-> TRUE]

\* C4: for each of the 17 labels, a null extracted value is reported as
\* {value: "-", isValid: true}, with or without a tolerance band.
C4_NullIsReportedValid ==
  Rendered =>
    \A i \in 1..Len(measurementMapping) :
      extractValue(documents, RuleAt(i)) = Null =>
        CellAt(i) = [value |-> "-", isValid |-> TRUE]

\* a banded label whose document is there with a null field, another banded
\* label with no document, and the band-less M
C4_Witness ==
  /\ Rendered
  /\ \E i \in DirectLabels :
       /\ MatchesAt(i) # {}
       /\ ~RangeAt(i).isNull
       /\ extractValue(documents, RuleAt(i)) = Null
       /\ CellAt(i) = [value |-> "-", isValid |-> TRUE]
  /\ \E i \in DirectLabels : MatchesAt(i) = {} /\ CellAt(i).value = "-"
  /\ Get(measurements, "M") = [value |-> "-", isValid |-> TRUE]

\* C5: for a label with a band and a non-null extracted value v, isValid
\* holds exactly when min <= v <= max, both ends included; a label without a
\* band is always valid.
C5_ValidIffInBand ==
  Rendered =>
    \A i \in 1..Len(measurementMapping) :
      LET v == extractValue(documents, RuleAt(i))
      IN  /\ (v # Null /\ ~RangeAt(i).isNull) =>
               /\ CellAt(i).isValid <=> InBand(v, RangeAt(i))
               /\ v \in {RangeAt(i).min, RangeAt(i).max} => CellAt(i).isValid
          /\ RangeAt(i).isNull => CellAt(i).isValid

\* a value on the upper end of its band, reported valid
C5_Witness ==
  /\ Rendered
  /\ \E i \in 1..Len(measurementMapping) :
       /\ ~RangeAt(i).isNull
       /\ extractValue(documents, RuleAt(i)) = RangeAt(i).max
       /\ CellAt(i).isValid

\* C6: a direct lookup whose (index, typeTag) matches no document yields
\* null, and its cell is the valid "-"; the empty document set included.
C6_MissingPointIsNull ==
  Rendered =>
    \A i \in DirectLabels :
      MatchesAt(i) = {} =>
        /\ LookupAt(i) = Null
        /\ extractValue(documents, RuleAt(i)) = Null
        /\ CellAt(i) = [value |-> "-", isValid |-> TRUE]

\* a document shares the index of a rule but not its type tag
C6_Witness ==
  /\ Rendered
  /\ \E i \in DirectLabels :
       /\ MatchesAt(i) = {}
       /\ \E k \in 1..Len(documents) :
            /\ documents[k].index = RuleAt(i).index
            /\ FieldOf(documents[k], RuleAt(i).field).t = "number"
       /\ CellAt(i) = [value |-> "-", isValid |-> TRUE]

\* the lookups of the constituents of the AVERAGE rule of F
FRefs == RuleAt(PlaceOf("F")).indices

FLookup(k) == getValue(documents, FRefs[k].index, FRefs[k].type, FRefs[k].field)

\* the constituents of F that resolve
FResolved == {k \in 1..Len(FRefs) : FLookup(k) # Null}

\* the signed sum of the resolved constituents of F, in units of 1/Scale
RECURSIVE FSum(_)
FSum(k) ==
  IF k = 0 THEN 0
  ELSE FSum(k - 1) + (IF k \in FResolved THEN FLookup(k).n ELSE 0)

FValue == extractValue(documents, RuleAt(PlaceOf("F")))

\* C7: F is the arithmetic mean of exactly the constituents that resolve to a
\* non-null value; it is null exactly when none resolves, and it is the value
\* itself when exactly one resolves.
C7_AverageOfResolved ==
  Rendered =>
    /\ FValue = Null <=> FResolved = {}
    /\ \A k \in FResolved : FResolved = {k} => FValue = FLookup(k)
    /\ (FResolved # {} /\ \A k \in FResolved : IsNum(FLookup(k))) =>
         /\ IsNum(FValue)
         /\ FValue.n * Cardinality(FResolved) = FSum(Len(FRefs))
    /\ Get(measurements, "F").value = (IF FValue = Null THEN "-" ELSE toFixed3(FValue))

\* three of the four constituents resolve: 3.1, 3.3 and 3.4
C7_Witness ==
  /\ Rendered
  /\ Cardinality(FResolved) = 3
  /\ \A k \in FResolved : IsNum(FLookup(k))
  /\ Get(measurements, "F") = [value |-> "3.267", isValid |-> TRUE]

\* C8: a direct rule with the absolute flag yields the magnitude of the value
\* looked up, one without the flag yields the value with its sign, and the
\* average is the mean of the signed constituents.
C8_AbsoluteOnlyWhereFlagged ==
  Rendered =>
    /\ \A i \in DirectLabels :
         LET g == LookupAt(i)
             v == extractValue(documents, RuleAt(i))
         IN  IsNum(g) =>
               /\ RuleAt(i).absolute =>
                    /\ v.n >= 0
                    /\ v.n \in {g.n, 0 - g.n}
                    /\ CellAt(i).value = toFixed3(Num(IF g.n < 0 THEN 0 - g.n ELSE g.n))
               /\ ~RuleAt(i).absolute => v = g /\ CellAt(i).value = toFixed3(g)
    /\ ( /\ \E k \in FResolved : IsNum(FLookup(k)) /\ FLookup(k).n < 0
         /\ \A k \in FResolved : IsNum(FLookup(k)) ) =>
         FValue.n * Cardinality(FResolved) = FSum(Len(FRefs))

\* a flagged rule finds a negative number, an unflagged rule another one
C8_Witness ==
  /\ Rendered
  /\ \E i \in DirectLabels :
       /\ RuleAt(i).absolute
       /\ IsNum(LookupAt(i)) /\ LookupAt(i).n < 0
       /\ CellAt(i).isValid

C8_WitnessSigned ==
  /\ Rendered
  /\ \E i \in DirectLabels :
       /\ ~RuleAt(i).absolute
       /\ IsNum(LookupAt(i)) /\ LookupAt(i).n < 0
       /\ ~CellAt(i).isValid

C8_WitnessAverage ==
  /\ Rendered
  /\ Cardinality(FResolved) >= 2
  /\ \A k \in FResolved : IsNum(FLookup(k))
  /\ \E k \in FResolved : FLookup(k).n < 0

\* the contents of the field targeted by the rule at place i, in its first
\* matching document
TargetAt(i) ==
  FieldOf(documents[CHOOSE k \in MatchesAt(i) : \A j \in MatchesAt(i) : k <= j],
          RuleAt(i).field)

\* C9: when the document is found and the targeted field is null, the empty
\* string or the dash, the extracted value is null and the cell is the valid
\* "-".
C9_EmptyFieldIsNull ==
  Rendered =>
    \A i \in DirectLabels :
      (MatchesAt(i) # {} /\ TargetAt(i) \in {Null, Str(<<>>), Str(<<"-">>)}) =>
        /\ LookupAt(i) = Null
        /\ CellAt(i) = [value |-> "-", isValid |-> TRUE]

\* the document set made of document k alone
Only(k) == <<documents[k]>>

\* C10: a rule is resolved against the first document, in sequence order,
\* whose index and typeTag both equal the rule's; documents that share only
\* the index, and later matches, do not count.
C10_CompoundKeyFirstMatch ==
  Rendered =>
    \A i \in DirectLabels :
      /\ MatchesAt(i) # {} =>
           LET first == CHOOSE k \in MatchesAt(i) : \A j \in MatchesAt(i) : k <= j
           IN  /\ LookupAt(i) = getValue(Only(first), RuleAt(i).index,
                                         RuleAt(i).type, RuleAt(i).field)
               /\ CellAt(i) = processFileDataForMeasurements(Only(first))[i].val
      /\ MatchesAt(i) = {} => CellAt(i) = processFileDataForMeasurements(<<>>)[i].val

\* the first document shares only the index; the second one matches
C10_Witness ==
  /\ Rendered
  /\ Len(documents) = 2
  /\ \E i \in DirectLabels :
       /\ MatchesAt(i) = {2}
       /\ documents[1].index = RuleAt(i).index
       /\ IsNum(TargetAt(i))
       /\ IsNum(FieldOf(documents[1], RuleAt(i).field))
       /\ FieldOf(documents[1], RuleAt(i).field) # TargetAt(i)
       /\ CellAt(i).isValid

\* both documents match; they hold different numbers
C10_WitnessFirst ==
  /\ Rendered
  /\ Len(documents) = 2
  /\ \E i \in DirectLabels :
       /\ MatchesAt(i) = {1, 2}
       /\ IsNum(TargetAt(i))
       /\ IsNum(FieldOf(documents[2], RuleAt(i).field))
       /\ FieldOf(documents[2], RuleAt(i).field) # TargetAt(i)

----------------------------------------------------------------------------
(* GET /summary?selectedFiles=id,id,... : the loop over the selected files *)

MaxSelected == 2

\* what the storage holds for a file: the documents in ascending index order
BatchDocSets ==
  { <<>>, FailExample, PassExample,
    <<DocWith(1, "PT-COMP", "x", Neg(Dec(8, 400)), Null)>>,
    <<DocWith(9, "CIRCLE", "diameter", Dec(37, 500), Null),
      DocWith(10, "CIRCLE", "diameter", Dec(7, 700), Null)>> }

\* the ids a request may name; "gone" is the id of no file
RequestIds == FileIds \cup {"gone"}

Selections ==
  UNION { [1..n -> RequestIds] : n \in 0..MaxSelected }

\* filesData and fileData before the loop
EmptyAcc == [filesData |-> <<>>, fileData |-> <<>>]

\* the loop that lets the documents of the files already seen leak into the next
RECURSIVE SummaryFiles_Leaky(_, _, _, _)
SummaryFiles_Leaky(ids, st, fail, acc) ==
  IF ids = <<>> THEN acc
  ELSE LET fileId == Head(ids)
       IN  IF fileId \in fail \/ fileId \notin DOMAIN st
           THEN SummaryFiles_Leaky(Tail(ids), st, fail, acc)
           ELSE LET seen == IF acc.filesData = <<>> THEN <<>>
                            ELSE acc.filesData[Len(acc.filesData)].data
                    docs == seen \o st[fileId]
                    m    == processFileDataForMeasurements(docs)
                    g    == processGValues(m)
                IN  SummaryFiles_Leaky(Tail(ids), st, fail,
                      [filesData |-> Append(acc.filesData, [file |-> fileId, data |-> docs]),
                       fileData  |-> Put(acc.fileData, fileId, Assemble(m, g))])

\* the loop that fills the cells of a file that failed with placeholders
RECURSIVE SummaryFiles_Placeholder(_, _, _, _)
SummaryFiles_Placeholder(ids, st, fail, acc) ==
  IF ids = <<>> THEN acc
  ELSE LET fileId == Head(ids)
       IN  IF fileId \in fail \/ fileId \notin DOMAIN st
           THEN SummaryFiles_Placeholder(Tail(ids), st, fail,
                  [acc EXCEPT !.fileData = Put(acc.fileData, fileId, <<>>)])
           ELSE LET docs == st[fileId]
                    m    == processFileDataForMeasurements(docs)
                    g    == processGValues(m)
                IN  SummaryFiles_Placeholder(Tail(ids), st, fail,
                      [filesData |-> Append(acc.filesData, [file |-> fileId, data |-> docs]),
                       fileData  |-> Put(acc.fileData, fileId, Assemble(m, g))])

\* for (const fileId of fileIds) { try { ... } catch (error) { ... } }: a file
\* whose getDocument or listDocuments throws (the ids in fail, and ids of no
\* file) is logged and skipped
RECURSIVE SummaryFiles(_, _, _, _)
SummaryFiles(ids, st, fail, acc) ==
  IF ids = <<>> THEN acc
  ELSE LET fileId == Head(ids)
       IN  IF fileId \in fail \/ fileId \notin DOMAIN st
           THEN SummaryFiles(Tail(ids), st, fail, acc)
           ELSE LET docs == st[fileId]
                    m    == processFileDataForMeasurements(docs)
                    g    == processGValues(m)
                IN  SummaryFiles(Tail(ids), st, fail,
                      [filesData |-> Append(acc.filesData, [file |-> fileId, data |-> docs]),
                       fileData  |-> Put(acc.fileData, fileId, Assemble(m, g))])

InitBatch ==
  /\ store \in [FileIds -> BatchDocSets]
  /\ selected \in Selections
  /\ failing \in SUBSET FileIds
  /\ summary = NoSummary
  /\ EngineIdle /\ UploadIdle /\ WebIdle /\ AuthIdle /\ DbIdle

\* no id selected: res.redirect("/")
SummaryRedirect ==
  /\ selected = <<>>
  /\ summary' = [NoSummary EXCEPT !.status = "redirect"]
  /\ UNCHANGED <<store, selected, failing, engineVars, uploadVars, webVars, authVars, dbVars>>

\* res.render("summary", { filesData, files, fileData, ... })
SummaryBatch ==
  /\ selected # <<>>
  /\ LET out == SummaryFiles(selected, store, failing, EmptyAcc)
     IN  summary' = [status |-> "rendered", filesData |-> out.filesData,
                     fileData |-> out.fileData]
  /\ UNCHANGED <<store, selected, failing, engineVars, uploadVars, webVars, authVars, dbVars>>

NextBatch == SummaryRedirect \/ SummaryBatch

SpecBatch == InitBatch /\ [][NextBatch]_vars

\* the selected ids whose documents the storage failed to return
FailedIds == {selected[k] : k \in 1..Len(selected)} \ (FileIds \ failing)

FetchedIds == {selected[k] : k \in 1..Len(selected)} \cap (FileIds \ failing)

StoreAlone(id) == [f \in FileIds |-> IF f = id THEN store[id] ELSE <<>>]

\* the report of id when it is the only file selected
ReportAlone(id) ==
  Get(SummaryFiles(<<id>>, StoreAlone(id), {}, EmptyAcc).fileData, id)

Reverse(seq) == [k \in 1..Len(seq) |-> seq[Len(seq) + 1 - k]]

\* C12: in a batch the report of each file is the report computed for that
\* file alone, whatever the other files hold and in whatever order the files
\* are processed.
C12_ReportDependsOnOwnFileOnly ==
  summary.status = "rendered" =>
    \A id \in KeySet(summary.fileData) :
      /\ Get(summary.fileData, id) = ReportAlone(id)
      /\ Get(SummaryFiles(Reverse(selected), store, failing, EmptyAcc).fileData, id)
           = Get(summary.fileData, id)

\* two files with different documents and different reports in one batch
C12_Witness ==
  /\ summary.status = "rendered"
  /\ Len(selected) = 2
  /\ selected[1] # selected[2]
  /\ KeySet(summary.fileData) = {selected[1], selected[2]}
  /\ store[selected[1]] # <<>>
  /\ store[selected[2]] # <<>>
  /\ Get(summary.fileData, selected[1]) # Get(summary.fileData, selected[2])

----------------------------------------------------------------------------
(* Strings as sequences of characters *)

\* s.split(sep)
RECURSIVE SplitOn(_, _)
SplitOn(s, sep) ==
  IF \A i \in 1..Len(s) : s[i] # sep THEN <<s>>
  ELSE LET at == CHOOSE i \in 1..Len(s) : s[i] = sep /\ \A j \in 1..(i - 1) : s[j] # sep
       IN  <<SubSeq(s, 1, at - 1)>> \o SplitOn(SubSeq(s, at + 1, Len(s)), sep)

RECURSIVE TrimEnd(_)
TrimEnd(s) ==
  IF s # <<>> /\ IsWhite(s[Len(s)]) THEN TrimEnd(SubSeq(s, 1, Len(s) - 1)) ELSE s

\* s.trim()
Trim(s) == TrimEnd(TrimStart(s))

\* s.includes(sub)
Includes(s, sub) ==
  \E i \in 1..(Len(s) - Len(sub) + 1) : SubSeq(s, i, i + Len(sub) - 1) = sub

\* parts.join(sep)
RECURSIVE JoinChars(_, _)
JoinChars(parts, sep) ==
  IF parts = <<>> THEN <<>>
  ELSE IF Len(parts) = 1 THEN parts[1]
  ELSE parts[1] \o <<sep>> \o JoinChars(Tail(parts), sep)

\* the string made of the characters cs
RECURSIVE StrOf(_)
StrOf(cs) == IF cs = <<>> THEN "" ELSE Head(cs) \o StrOf(Tail(cs))

UpperChars ==
  { "A", "B", "C", "D", "E", "F", "G", "H", "I", "J", "K", "L", "M",
    "N", "O", "P", "Q", "R", "S", "T", "U", "V", "W", "X", "Y", "Z" }

\* the characters kept by replace(/[^A-Z0-9-]/g, "")
TagChars == UpperChars \cup {DigitChars[d] : d \in 1..10} \cup {"-"}

\* the characters kept by replace(/[^A-Z-]/g, "")
LegacyTagChars == UpperChars \cup {"-"}

\* s.replace(/[^...]/g, ""), keep being the characters of the class
Strip(s, keep) == SelectSeq(s, LAMBDA ch : ch \in keep)

\* parseInt(s) and parseInt(s, 10) of a decimal string: white space, a sign
\* and digits are read, anything after them is ignored
parseInt(s) ==
  LET t0   == TrimStart(s)
      sign == IF t0 # <<>> /\ Head(t0) = "-" THEN 0 - 1 ELSE 1
      t1   == IF t0 # <<>> /\ Head(t0) \in {"-", "+"} THEN Tail(t0) ELSE t0
      ip   == DigitRun(t1)
  IN  IF ip = <<>> THEN NaN ELSE Num(sign * IntOf(ip) * Scale)

\* v || null for a number v
OrNull(v) == IF IsNum(v) /\ v.n # 0 THEN v ELSE Null

\* v || 0 for a number v
OrZero(v) == IF IsNum(v) /\ v.n # 0 THEN v ELSE Num(0)

\* parts[k], k counted from 0; undefined beyond the end
Part(parts, k) == IF k + 1 <= Len(parts) THEN Str(parts[k + 1]) ELSE Undefined

\* one record of file_data
Row(index, dataType, x, y, z, rx, ry, rz, note, d, tol) ==
  [index |-> index, data_type |-> dataType, x |-> x, y |-> y, z |-> z,
   rot_x |-> rx, rot_y |-> ry, rot_z |-> rz, note |-> note,
   diameter |-> d, tolerance |-> tol]

----------------------------------------------------------------------------
(* parseTxtFile of the Appwrite servers *)

\* the body of lines.forEach with a line of three fields dropped as well
ParseTxtLine_DropsThree(ln) ==
  LET parts == SplitOn(ln, ";")
  IN  IF Len(parts) <= 3 THEN <<>>
      ELSE <<Row(parseInt(parts[1]), StrOf(Trim(parts[2])), Null, Null, Null,
                 Null, Null, Null, Str(<<>>), Null, Null)>>

\* the body of lines.forEach: no data point, or the one pushed
ParseTxtLine(ln) ==
  LET parts    == SplitOn(ln, ";")
      F(k)     == OrNull(parseFloat(Part(parts, k)))
      dataType == IF Len(parts) < 3 THEN <<>> ELSE Trim(parts[2])
      tag      == StrOf(dataType)
  IN  IF Len(parts) < 3 THEN <<>>
      ELSE IF Includes(dataType, <<"C", "I", "R", "C", "L", "E">>) \/ tag = "PLANE"
      THEN <<Row(parseInt(parts[1]), tag, F(3), F(4), F(5), F(6), F(7), F(8),
                 IF Part(parts, 9) \in {Undefined, Str(<<>>)} THEN Str(<<>>) ELSE Part(parts, 9),
                 F(10), F(11))>>
      ELSE IF tag = "PT-COMP"
      THEN <<Row(parseInt(parts[1]), tag, F(3), F(4), F(5), Null, Null, Null,
                 Str(<<>>), Null, Null)>>
      ELSE IF tag = "DISTANCE"
      THEN <<Row(parseInt(parts[1]), tag, F(2), F(3), F(4), Null, Null, Null,
                 Str(<<>>), F(9), Null)>>
      ELSE <<Row(parseInt(parts[1]), tag, Null, Null, Null, Null, Null, Null,
                 Str(<<>>), Null, Null)>>

\* the data points of the lines lns, in order
RECURSIVE ParseTxtLines(_)
ParseTxtLines(lns) ==
  IF lns = <<>> THEN <<>> ELSE ParseTxtLine(Head(lns)) \o ParseTxtLines(Tail(lns))

parseTxtFile(text) ==
  ParseTxtLines(SelectSeq(SplitOn(text, "\n"), LAMBDA ln : Trim(ln) # <<>>))

----------------------------------------------------------------------------
(* The line loop of POST /upload of the Postgres server *)

\* cleanValue(val, defaultVal = null)
cleanValue(val) ==
  IF val = Undefined \/ val = Null THEN Null
  ELSE IF Trim(val.s) = <<>> THEN Null ELSE ParseFloatStr(Trim(val.s))

\* the body of the loop over the lines: no row, or the row inserted
UploadLine(ln) ==
  LET parts    == SplitOn(ln, ";")
      n        == Len(parts)
      dataType == IF n < 3 THEN "" ELSE StrOf(Strip(Trim(parts[2]), TagChars))
      round    == dataType = "CIRCLE" \/ dataType = "PLANE"
      C(k)     == cleanValue(Part(parts, k))
  IN  IF n < 3 THEN <<>>
      ELSE <<Row(OrZero(parseInt(parts[1])), dataType,
                 IF n >= 5 THEN C(2) ELSE Null,
                 IF n >= 5 THEN C(3) ELSE Null,
                 IF n >= 5 THEN C(4) ELSE Null,
                 IF round /\ n >= 8 THEN C(5) ELSE Null,
                 IF round /\ n >= 8 THEN C(6) ELSE Null,
                 IF round /\ n >= 8 THEN C(7) ELSE Null,
                 IF round /\ n >= 9 THEN Str(Trim(parts[9])) ELSE Str(<<>>),
                 IF dataType = "DISTANCE" /\ n >= 9 THEN C(8)
                 ELSE IF round /\ n >= 10 THEN C(9) ELSE Null,
                 IF round /\ n >= 11 THEN C(10) ELSE Null)>>

RECURSIVE UploadLines(_)
UploadLines(lns) ==
  IF lns = <<>> THEN <<>> ELSE UploadLine(Head(lns)) \o UploadLines(Tail(lns))

\* content.split("\n").map(trim).filter(length > 0)
TrimmedLines(text) ==
  LET all == SplitOn(text, "\n")
  IN  SelectSeq([i \in 1..Len(all) |-> Trim(all[i])], LAMBDA ln : Len(ln) > 0)

----------------------------------------------------------------------------
(* The line loop of POST /upload of the first Postgres server *)

\* what one line does: nothing, a row inserted, or an exception
LegacyLine(ln) ==
  LET parts    == SplitOn(ln, ";")
      n        == Len(parts)
      index    == parseInt(parts[1])
      dataType == IF n < 3 THEN "" ELSE StrOf(Strip(Trim(parts[2]), LegacyTagChars))
      C(k)     == IF Trim(parts[k + 1]) = <<>> THEN Null ELSE ParseFloatStr(Trim(parts[k + 1]))
      P(k)     == ParseFloatStr(Trim(parts[k + 1]))
      skip     == [kind |-> "skip", row |-> <<>>]
      throw    == [kind |-> "throw", row |-> <<>>]
      ins(r)   == IF IsNum(index) THEN [kind |-> "row", row |-> <<r>>] ELSE throw
  IN  IF n < 3 THEN skip
      ELSE IF dataType = "CIRCLE" \/ dataType = "PLANE"
      THEN IF n < 10 THEN skip
           ELSE ins(Row(index, dataType, C(2), C(3), C(4), C(5), C(6), C(7),
                        Str(Trim(parts[9])), C(9),
                        IF n > 10 THEN C(10) ELSE Null))
      ELSE IF dataType = "PT-COMP"
      THEN IF n < 5 THEN throw
           ELSE ins(Row(index, dataType, P(2), P(3), P(4), Null, Null, Null,
                        Null, Null, Null))
      ELSE IF dataType = "DISTANCE"
      THEN IF n < 9 THEN throw
           ELSE ins(Row(index, dataType, P(2), P(3), P(4), Null, Null, Null,
                        Null, P(8), Null))
      ELSE skip

\* the rows inserted until the lines end or one of them throws
RECURSIVE LegacyLines(_, _)
LegacyLines(lns, acc) ==
  IF lns = <<>> THEN [rows |-> acc, status |-> "redirect"]
  ELSE LET r == LegacyLine(Head(lns))
       IN  IF r.kind = "throw" THEN [rows |-> acc, status |-> "500"]
           ELSE LegacyLines(Tail(lns), acc \o r.row)

----------------------------------------------------------------------------
(* The uploaded text *)

MaxLines == 2

\* the CIRCLE line of the parsing example: 5;CIRCLE;1.0;2.0;3.0;0;0;0;sample;12.345;0.05
LineCircle ==
  JoinChars(<< <<"5">>,
               <<"C", "I", "R", "C", "L", "E">>,
               <<"1", ".", "0">>,
               <<"2", ".", "0">>,
               <<"3", ".", "0">>,
               <<"0">>,
               <<"0">>,
               <<"0">>,
               <<"s", "a", "m", "p", "l", "e">>,
               <<"1", "2", ".", "3", "4", "5">>,
               <<"0", ".", "0", "5">> >>, ";")

\* the PT-COMP line of the parsing example: 7;PT-COMP;1.5;2.5;3.5
LinePtComp ==
  JoinChars(<< <<"7">>,
               <<"P", "T", "-", "C", "O", "M", "P">>,
               <<"1", ".", "5">>,
               <<"2", ".", "5">>,
               <<"3", ".", "5">> >>, ";")

\* two fields: 1;X
LineShort ==
  JoinChars(<< <<"1">>,
               <<"X">> >>, ";")

\* a CIRCLE line with a stray & and a blank third column: 9;CIRCLE&; ;1.0;2.0;3.0;0.5;0.6;0.7;note;37.5;0.05
LineCircleAmp ==
  JoinChars(<< <<"9">>,
               <<"C", "I", "R", "C", "L", "E", "&">>,
               <<" ">>,
               <<"1", ".", "0">>,
               <<"2", ".", "0">>,
               <<"3", ".", "0">>,
               <<"0", ".", "5">>,
               <<"0", ".", "6">>,
               <<"0", ".", "7">>,
               <<"n", "o", "t", "e">>,
               <<"3", "7", ".", "5">>,
               <<"0", ".", "0", "5">> >>, ";")

\* a DISTANCE line: 1;DISTANCE;1.0;15.9;3.0;4.0;5.0;6.0;8.0;9.0
LineDistance ==
  JoinChars(<< <<"1">>,
               <<"D", "I", "S", "T", "A", "N", "C", "E">>,
               <<"1", ".", "0">>,
               <<"1", "5", ".", "9">>,
               <<"3", ".", "0">>,
               <<"4", ".", "0">>,
               <<"5", ".", "0">>,
               <<"6", ".", "0">>,
               <<"8", ".", "0">>,
               <<"9", ".", "0">> >>, ";")

\* an unknown tag with coordinates: 3;FOO;1.0;2.0;3.0
LineUnknown ==
  JoinChars(<< <<"3">>,
               <<"F", "O", "O">>,
               <<"1", ".", "0">>,
               <<"2", ".", "0">>,
               <<"3", ".", "0">> >>, ";")

\* an unknown tag, three fields: 4;BAR;1.0
LineUnknownShort ==
  JoinChars(<< <<"4">>,
               <<"B", "A", "R">>,
               <<"1", ".", "0">> >>, ";")

\* a CIRCLE line with text where numbers belong: 6;CIRCLE;abc;2.0;3.0;0.1;0.2;0.3;n;x;0.05
LineCircleText ==
  JoinChars(<< <<"6">>,
               <<"C", "I", "R", "C", "L", "E">>,
               <<"a", "b", "c">>,
               <<"2", ".", "0">>,
               <<"3", ".", "0">>,
               <<"0", ".", "1">>,
               <<"0", ".", "2">>,
               <<"0", ".", "3">>,
               <<"n">>,
               <<"x">>,
               <<"0", ".", "0", "5">> >>, ";")

\* a PLANE line: 2;PLANE;1.0;2.0;3.0;0.1;0.2;0.3;p;4.0;0.05
LinePlane ==
  JoinChars(<< <<"2">>,
               <<"P", "L", "A", "N", "E">>,
               <<"1", ".", "0">>,
               <<"2", ".", "0">>,
               <<"3", ".", "0">>,
               <<"0", ".", "1">>,
               <<"0", ".", "2">>,
               <<"0", ".", "3">>,
               <<"p">>,
               <<"4", ".", "0">>,
               <<"0", ".", "0", "5">> >>, ";")

\* a tag that contains CIRCLE and a digit: 8;CIRCLE2;1.0;2.0;3.0;0.1;0.2;0.3;q;8.0;0.05
LineCircle2 ==
  JoinChars(<< <<"8">>,
               <<"C", "I", "R", "C", "L", "E", "2">>,
               <<"1", ".", "0">>,
               <<"2", ".", "0">>,
               <<"3", ".", "0">>,
               <<"0", ".", "1">>,
               <<"0", ".", "2">>,
               <<"0", ".", "3">>,
               <<"q">>,
               <<"8", ".", "0">>,
               <<"0", ".", "0", "5">> >>, ";")

\* a PT-COMP line without y and z: 7;PT-COMP;1.5
LinePtCompShort ==
  JoinChars(<< <<"7">>,
               <<"P", "T", "-", "C", "O", "M", "P">>,
               <<"1", ".", "5">> >>, ";")

\* a line whose first field is no number: x;PT-COMP;1.5;2.5;3.5
LineNoIndex ==
  JoinChars(<< <<"x">>,
               <<"P", "T", "-", "C", "O", "M", "P">>,
               <<"1", ".", "5">>,
               <<"2", ".", "5">>,
               <<"3", ".", "5">> >>, ";")

\* a line of white space
LineBlank == <<" ", " ">>

\* three empty fields
LineEmptyFields == <<";", ";">>

LineSamples ==
  { LineCircle, LinePtComp, LineShort, LineCircleAmp, LineDistance, LineUnknown,
    LineUnknownShort, LineCircleText, LinePlane, LineCircle2, LinePtCompShort, LineNoIndex,
    LineBlank, LineEmptyFields }

Contents ==
  { JoinChars(lns, "\n") : lns \in UNION { [1..n -> LineSamples] : n \in 0..MaxLines } }

InitUpload ==
  /\ content \in Contents
  /\ rows = <<>>
  /\ handler = "none"
  /\ EngineIdle /\ BatchIdle /\ WebIdle /\ AuthIdle /\ DbIdle

\* POST /upload of the Appwrite servers: the data points of parseTxtFile are
\* stored one document each
UploadAppwrite ==
  /\ handler = "none"
  /\ rows' = parseTxtFile(content)
  /\ handler' = "appwrite"
  /\ UNCHANGED <<content, engineVars, batchVars, webVars, authVars, dbVars>>

\* POST /upload of the Postgres server
UploadPostgres ==
  /\ handler = "none"
  /\ rows' = UploadLines(TrimmedLines(content))
  /\ handler' = "postgres"
  /\ UNCHANGED <<content, engineVars, batchVars, webVars, authVars, dbVars>>

\* POST /upload of the first Postgres server
UploadLegacy ==
  /\ handler = "none"
  /\ LET out == LegacyLines(TrimmedLines(content), <<>>)
     IN  /\ rows' = out.rows
         /\ handler' = IF out.status = "500" THEN "legacy-500" ELSE "legacy"
  /\ UNCHANGED <<content, engineVars, batchVars, webVars, authVars, dbVars>>

NextUpload == UploadAppwrite \/ UploadPostgres \/ UploadLegacy

SpecUpload == InitUpload /\ [][NextUpload]_vars

----------------------------------------------------------------------------
(* The uploaded lines and the records made of them *)

\* the number of semicolon-separated fields of a line
NumFields(ln) == 1 + Cardinality({i \in 1..Len(ln) : ln[i] = ";"})

\* the lines of the text that are not empty
NonEmptyLines(text) ==
  SelectSeq(SplitOn(text, "\n"), LAMBDA ln : \E i \in 1..Len(ln) : ~IsWhite(ln[i]))

\* the non-empty lines with at least three fields
GoodLines(text) == SelectSeq(NonEmptyLines(text), LAMBDA ln : NumFields(ln) >= 3)

\* field k of a line, k counted from 0
Field(ln, k) == SplitOn(ln, ";")[k + 1]

\* the records a handler makes of a text
RowsOf(h, text) ==
  IF h = "appwrite" THEN parseTxtFile(text)
  ELSE IF h = "postgres" THEN UploadLines(TrimmedLines(text))
  ELSE LegacyLines(TrimmedLines(text), <<>>).rows

\* the two parsers that claim C13 names
LineParsers == {"appwrite", "postgres"}

\* C13: the line parser outputs, in file order, exactly one record for each
\* non-empty line with at least three fields; a line with fewer fields gives
\* no record, no partial record and no error, and leaves the records of the
\* other lines as they are without it
C13_OneRecordPerLineInOrder ==
  handler \in LineParsers =>
    LET good == GoodLines(content)
    IN  /\ Len(rows) = Len(good)
        /\ \A k \in 1..Len(good) :
             rows[k].index = IF handler = "appwrite" THEN parseInt(Field(good[k], 0))
                             ELSE OrZero(parseInt(Field(good[k], 0)))
        /\ rows = RowsOf(handler, JoinChars(good, "\n"))

\* a two-field line ahead of a PT-COMP line: one record, that of the PT-COMP line
C13_Witness ==
  /\ handler = "postgres"
  /\ content = JoinChars(<<LineShort, LinePtComp>>, "\n")
  /\ Len(rows) = 1
  /\ rows[1].index = Num(7 * Scale)
  /\ rows[1].x = Dec(1, 500)

----------------------------------------------------------------------------
(* The fields of a line and the fields of its record *)

\* the type tag of a line: field 1, trimmed, without the characters outside
\* [A-Z0-9-]
TagOf(ln) == Strip(Trim(Field(ln, 1)), TagChars)

IsRoundLine(ln) ==
  Includes(TagOf(ln), <<"C", "I", "R", "C", "L", "E">>) \/ StrOf(TagOf(ln)) = "PLANE"

IsOtherLine(ln) ==
  ~IsRoundLine(ln) /\ StrOf(TagOf(ln)) \notin {"PT-COMP", "DISTANCE"}

\* the number written in field k of a line, null when the field is absent
\* or is no number
Written(ln, k) ==
  IF k < 0 \/ k + 1 > NumFields(ln) THEN Null
  ELSE LET v == ParseFloatStr(Field(ln, k)) IN IF IsNum(v) THEN v ELSE Null

\* field k of a line is there and is a number
Parses(ln, k) ==
  k >= 0 /\ k + 1 <= NumFields(ln) /\ IsNum(ParseFloatStr(Field(ln, k)))

\* record field v holds the number written in field k of the line, where
\* a number is written there
Holds(v, ln, k) == Parses(ln, k) => v = Written(ln, k)

\* the handler ran to its end and made one record of each line with at
\* least three fields, so that record k is the record of line k
Aligned ==
  /\ handler \in {"appwrite", "postgres", "legacy"}
  /\ Len(rows) = Len(GoodLines(content))

RecordFields == {"x", "y", "z", "rot_x", "rot_y", "rot_z", "diameter", "tolerance"}

\* the line ln with the numbers 21 to 30 written in its fields 2 to 11
Numbered(ln) ==
  JoinChars(<< Field(ln, 0), Field(ln, 1),
               <<"2", "1">>, <<"2", "2">>, <<"2", "3">>, <<"2", "4">>, <<"2", "5">>,
               <<"2", "6">>, <<"2", "7">>, <<"2", "8">>, <<"2", "9">>, <<"3", "0">> >>, ";")

\* the field of a line from which handler h takes record field f: the
\* place where the number it yields for the numbered line is written; 0
\* when it yields none
SourceField(h, ln, f) ==
  LET made == RowsOf(h, Numbered(ln))
  IN  IF made = <<>> THEN 0
      ELSE IF ~IsNum(made[1][f]) THEN 0
      ELSE (made[1][f].n \div Scale) - 19

\* C14: for a line whose tag contains CIRCLE or equals PLANE the fields 2 to
\* 10 become x, y, z, rotX, rotY, rotZ, note, diameter and tolerance, each
\* numeric field holding the number written in it; the example line yields
\* index 5, CIRCLE, x 1.0, y 2.0, z 3.0, rotations 0, note "sample",
\* diameter 12.345, tolerance 0.05
C14_RoundLineFields ==
  Aligned =>
    LET good == GoodLines(content)
    IN  /\ \A k \in 1..Len(good) :
             IsRoundLine(good[k]) =>
               /\ Holds(rows[k].x, good[k], 2)
               /\ Holds(rows[k].y, good[k], 3)
               /\ Holds(rows[k].z, good[k], 4)
               /\ Holds(rows[k].rot_x, good[k], 5)
               /\ Holds(rows[k].rot_y, good[k], 6)
               /\ Holds(rows[k].rot_z, good[k], 7)
               /\ NumFields(good[k]) >= 9 => Trim(rows[k].note.s) = Trim(Field(good[k], 8))
               /\ Holds(rows[k].diameter, good[k], 9)
               /\ Holds(rows[k].tolerance, good[k], 10)
        /\ content = LineCircle =>
             rows = <<Row(Num(5 * Scale), "CIRCLE", Dec(1, 0), Dec(2, 0), Dec(3, 0),
                          Num(0), Num(0), Num(0), Str(<<"s", "a", "m", "p", "l", "e">>),
                          Dec(12, 345), Dec(0, 50))>>

\* C15: for a PT-COMP line the fields 2, 3 and 4 become x, y and z and every
\* other numeric field is null; the example line yields index 7, x 1.5,
\* y 2.5, z 3.5
C15_PtCompLineFields ==
  Aligned =>
    LET good == GoodLines(content)
    IN  /\ \A k \in 1..Len(good) :
             StrOf(TagOf(good[k])) = "PT-COMP" =>
               /\ Holds(rows[k].x, good[k], 2)
               /\ Holds(rows[k].y, good[k], 3)
               /\ Holds(rows[k].z, good[k], 4)
               /\ \A f \in RecordFields \ {"x", "y", "z"} : rows[k][f] = Null
        /\ content = LinePtComp =>
             /\ Len(rows) = 1
             /\ rows[1].index = Num(7 * Scale)
             /\ rows[1].x = Dec(1, 500)
             /\ rows[1].y = Dec(2, 500)
             /\ rows[1].z = Dec(3, 500)

\* C16: for a DISTANCE line x, y and z come from the three fields one place
\* ahead of those a CIRCLE line takes them from, diameter comes from field
\* 8, and the rotations and tolerance are null
C16_DistanceLineFields ==
  Aligned =>
    LET good == GoodLines(content)
        cx   == SourceField(handler, LineCircle, "x")
    IN  \A k \in 1..Len(good) :
          StrOf(TagOf(good[k])) = "DISTANCE" =>
            /\ Holds(rows[k].x, good[k], cx - 1)
            /\ Holds(rows[k].y, good[k], cx)
            /\ Holds(rows[k].z, good[k], cx + 1)
            /\ Holds(rows[k].diameter, good[k], 8)
            /\ \A f \in {"rot_x", "rot_y", "rot_z", "tolerance"} : rows[k][f] = Null

\* C17: a line of three fields or more with any other tag still gives a
\* record, index and tag filled in and every numeric field null, and the
\* lines after it are parsed
C17_OtherTagGivesEmptyRecord ==
  /\ handler \in LineParsers =>
       LET good == GoodLines(content)
       IN  \A k \in 1..Len(good) :
             IsOtherLine(good[k]) =>
               /\ k <= Len(rows)
               /\ rows[k].data_type = StrOf(TagOf(good[k]))
               /\ \A f \in RecordFields : rows[k][f] = Null
  /\ handler = "legacy" =>
       LET good == GoodLines(content)
       IN  (\A k \in 1..Len(good) : IsOtherLine(good[k])) =>
             /\ Len(rows) = Len(good)
             /\ \A k \in 1..Len(rows) : \A f \in RecordFields : rows[k][f] = Null

\* C18: a numeric field that is there but is no number becomes null, the
\* record being made all the same, and a field is null only when it is
\* absent or is no number
C18_UnparsableFieldIsNull ==
  handler \in LineParsers =>
    LET good == GoodLines(content)
    IN  /\ Len(rows) = Len(good)
        /\ \A k \in 1..Len(rows) : \A f \in RecordFields :
             /\ rows[k][f] # NaN
             /\ (rows[k][f] = Null /\ SourceField(handler, good[k], f) # 0) =>
                  ~Parses(good[k], SourceField(handler, good[k], f))

\* the records as the collection returns them to the measurement engine
Stored ==
  [k \in 1..Len(rows) |->
     [rows[k] EXCEPT !.index = IF IsNum(rows[k].index) THEN rows[k].index.n \div Scale
                               ELSE 0 - 1]]

\* C19: the tag of every record is field 1 of its line, trimmed and without
\* the characters outside [A-Z0-9-], so that the record is found by a lookup
\* for that tag
C19_TagIsSanitized ==
  Aligned =>
    LET good == GoodLines(content)
    IN  \A k \in 1..Len(good) :
          /\ rows[k].data_type = StrOf(TagOf(good[k]))
          /\ IsNum(rows[k].index) =>
               FindPoint(Stored, rows[k].index.n \div Scale, StrOf(TagOf(good[k]))) # 0

----------------------------------------------------------------------------
(* The routes of the session-authenticated Postgres server *)

validUsernames == {"hinkan", "naemura", "iwatsuki"}

\* the user names and passwords posted to /login
Usernames == {"hinkan", "naemura", "mallory"}

Passwords == { <<"1", "2", "3", "4">>, <<"1", "2", "3">>, <<"1", "2", "3", "a">> }

\* /^\d{4}$/.test(password)
FourDigits(password) ==
  Len(password) = 4 /\ \A i \in 1..4 : IsDigit(password[i])

\* the weights posted, in grams
PostedWeights == { Str(<<"5", "0", "0">>), Str(<<"1", "2", "5", "0">>) }

\* a value stored in a DECIMAL(10, 1) column: rounded to one decimal, a
\* half away from zero
Decimal1(v) ==
  IF ~IsNum(v) THEN v
  ELSE LET u == Scale \div 10
           a == IF v.n < 0 THEN 0 - v.n ELSE v.n
           r == ((a \div u) + (IF 2 * (a % u) >= u THEN 1 ELSE 0)) * u
       IN  Num(IF v.n < 0 THEN 0 - r ELSE r)

\* what a request did: its route, whether its session was logged in and as
\* whom, the form it posted, the response, the tables it read and wrote, and
\* whether a call to the database failed on the way
Access(route, status, read, wrote) ==
  [route |-> route, session |-> session.loggedIn, user |-> session.username,
   form |-> <<>>, status |-> status, read |-> read, wrote |-> wrote,
   failed |-> FALSE]

\* requireLogin: next() for a logged-in session, a redirect to /login otherwise
requireLogin == session.loggedIn

\* the response of requireLogin to a request it stops
Stopped(route) ==
  /\ access' = Access(route, "redirect:/login", {}, {})
  /\ UNCHANGED <<session, files>>

InitWeb ==
  /\ session = NoSession
  /\ files = [f \in FileIds |-> FileRow(Null)]
  /\ access = NoAccess
  /\ EngineIdle /\ BatchIdle /\ UploadIdle /\ AuthIdle /\ DbIdle

\* POST /login
Login ==
  \E username \in Usernames, password \in Passwords :
    /\ IF username \in validUsernames /\ FourDigits(password)
       THEN /\ session' = [loggedIn |-> TRUE, username |-> username]
            /\ access' = [Access("/login", "redirect:/", {}, {})
                            EXCEPT !.form = <<username, password>>]
       ELSE /\ session' = session
            /\ access' = [Access("/login", "render:login", {}, {})
                            EXCEPT !.form = <<username, password>>]
    /\ UNCHANGED <<files, engineVars, batchVars, uploadVars, authVars, dbVars>>

\* GET /logout
Logout ==
  /\ session' = NoSession
  /\ access' = Access("/logout", "redirect:/login", {}, {})
  /\ UNCHANGED <<files, engineVars, batchVars, uploadVars, authVars, dbVars>>

\* GET /
Index ==
  /\ IF requireLogin
     THEN /\ access' = Access("/", "render:index", {"files", "file_weights"}, {})
          /\ UNCHANGED <<session, files>>
     ELSE Stopped("/")
  /\ UNCHANGED <<engineVars, batchVars, uploadVars, authVars, dbVars>>

\* POST /delete-file
DeleteFile ==
  \E fileId \in FileIds :
    /\ IF requireLogin
       THEN /\ files' = [files EXCEPT ![fileId] = NoFile]
            /\ access' = Access("/delete-file", "json:success", {},
                                {"files", "file_data", "file_weights"})
            /\ UNCHANGED session
       ELSE Stopped("/delete-file")
    /\ UNCHANGED <<engineVars, batchVars, uploadVars, authVars, dbVars>>

\* GET /files/:id
ViewFile ==
  \E fileId \in RequestIds :
    /\ IF fileId \in FileIds /\ files[fileId].present
       THEN access' = Access("/files/:id", "render:fileData",
                             {"files", "file_weights", "file_data"}, {})
       ELSE access' = Access("/files/:id", "404", {"files"}, {})
    /\ UNCHANGED <<session, files, engineVars, batchVars, uploadVars, authVars, dbVars>>

\* POST /update-weight: the weight in kilograms is inserted or replaces the
\* one there; a file_id without its row in files fails the insert
UpdateWeight ==
  \E fileId \in FileIds, weight \in PostedWeights :
    LET weightInKg == DivBy(parseFloat(weight), 1000)
    IN  /\ IF files[fileId].present
           THEN /\ files' = [files EXCEPT ![fileId] = FileRow(Decimal1(weightInKg))]
                /\ access' = Access("/update-weight", "redirect:/", {}, {"file_weights"})
           ELSE /\ files' = files
                /\ access' = Access("/update-weight", "500", {}, {})
        /\ UNCHANGED <<session, engineVars, batchVars, uploadVars, authVars, dbVars>>

\* GET /export-weights
ExportWeights ==
  /\ access' = Access("/export-weights", "json", {"files", "file_weights"}, {})
  /\ UNCHANGED <<session, files, engineVars, batchVars, uploadVars, authVars, dbVars>>

\* Number(v) of a string: the number the whole of it denotes
NumberOf(v) ==
  LET t == Trim(v.s)
  IN  IF t = <<>> THEN Num(0)
      ELSE IF \A i \in 1..Len(t) : IsDigit(t[i]) \/ t[i] \in {".", "-", "+"}
      THEN ParseFloatStr(t)
      ELSE NaN

\* the number that the string v.toFixed(1) denotes
toFixed1(v) ==
  IF ~IsNum(v) THEN v
  ELSE LET u == Scale \div 10
           a == IF v.n < 0 THEN 0 - v.n ELSE v.n
           r == ((a \div u) + (IF 2 * (a % u) >= u THEN 1 ELSE 0)) * u
       IN  Num(IF v.n < 0 THEN 0 - r ELSE r)

\* POST /files/:id/update-weight; a file_id without its row in files fails
\* the insert
FileUpdateWeight ==
  \E fileId \in FileIds, posted \in PostedWeights :
    LET weight == toFixed1(NumberOf(posted))
    IN  /\ IF session.username = "hinkan"
           THEN /\ files' = files
                /\ access' = Access("/files/:id/update-weight", "403", {}, {})
           ELSE IF files[fileId].present
           THEN /\ files' = [files EXCEPT ![fileId] = FileRow(Decimal1(weight))]
                /\ access' = Access("/files/:id/update-weight", "redirect:/files/:id",
                                    {}, {"file_weights"})
           ELSE /\ files' = files
                /\ access' = [Access("/files/:id/update-weight", "500", {}, {})
                                EXCEPT !.failed = TRUE]
        /\ UNCHANGED <<session, engineVars, batchVars, uploadVars, authVars, dbVars>>

\* the bodies posted to /update-weights: req.body.weights, "" being a
\* missing fileId or weight
PostedBatches ==
  { <<>>,
    <<[fileId |-> "f1", weight |-> Str(<<"5", "0", "0">>)]>>,
    <<[fileId |-> "f1", weight |-> Str(<<"5", "0", "0">>)],
      [fileId |-> "f2", weight |-> Str(<<"8", "2", ".", "4", "6">>)]>>,
    <<[fileId |-> "f1", weight |-> Str(<<"5", "0", "0">>)],
      [fileId |-> "f2", weight |-> Str(<<"1", "2", "a">>)]>>,
    <<[fileId |-> "f2", weight |-> Str(<<"8", "2", ".", "4", "6">>)],
      [fileId |-> "", weight |-> Str(<<"5", "0", "0">>)]>>,
    <<[fileId |-> "f1", weight |-> Str(<<>>)],
      [fileId |-> "f2", weight |-> Str(<<"5", "0", "0">>)]>>,
    <<[fileId |-> "f1", weight |-> Str(<<" ">>)]>> }

\* !fileId || !weight || isNaN(weight)
InvalidEntry(item) ==
  item.fileId = "" \/ item.weight.s = <<>> \/ ~IsNum(NumberOf(item.weight))

\* the loop of /update-weights from entry k on: the table as written when
\* the loop ends or throws, and whether it was an insert that threw; the
\* insert at failAt fails, and so does one for a file_id without its row in
\* files
RECURSIVE StoreWeights(_, _, _, _)
StoreWeights(items, k, failAt, tbl) ==
  IF k > Len(items) THEN [thrown |-> FALSE, failed |-> FALSE, tbl |-> tbl]
  ELSE IF InvalidEntry(items[k])
  THEN [thrown |-> TRUE, failed |-> FALSE, tbl |-> tbl]
  ELSE IF k = failAt \/ ~tbl[items[k].fileId].present
  THEN [thrown |-> TRUE, failed |-> TRUE, tbl |-> tbl]
  ELSE StoreWeights(items, k + 1, failAt,
         [tbl EXCEPT ![items[k].fileId] =
            FileRow(Decimal1(toFixed1(parseFloat(items[k].weight))))])

\* the calls of /update-weights besides the inserts that may fail
BatchFaults == {"none", "connect", "begin", "commit"}

\* the transaction of /update-weights: BEGIN, the loop, COMMIT, and ROLLBACK
\* in the catch; the response, whether a call to the database failed, and
\* the table afterwards
UpdateWeightsTx(items, failAt, fault, tbl) ==
  IF fault \in {"connect", "begin"}
  THEN [status |-> "500", failed |-> TRUE, tbl |-> tbl]
  ELSE LET out == StoreWeights(items, 1, failAt, tbl)
       IN  IF out.thrown \/ fault = "commit"
           THEN [status |-> "500", failed |-> out.failed \/ ~out.thrown, tbl |-> tbl]
           ELSE [status |-> "json:success", failed |-> FALSE, tbl |-> out.tbl]

\* POST /update-weights
UpdateWeights ==
  \E weights \in PostedBatches, fault \in BatchFaults :
    \E failAt \in 0..Len(weights) :
      LET out == UpdateWeightsTx(weights, failAt, fault, files)
      IN  /\ IF session.username = "hinkan"
             THEN /\ files' = files
                  /\ access' = [Access("/update-weights", "403", {}, {})
                                  EXCEPT !.form = weights]
             ELSE /\ files' = out.tbl
                  /\ access' = [Access("/update-weights", out.status, {},
                                       IF out.status = "500" THEN {} ELSE {"file_weights"})
                                  EXCEPT !.form = weights, !.failed = out.failed]
          /\ UNCHANGED <<session, engineVars, batchVars, uploadVars, authVars, dbVars>>

NextWeb ==
  \/ FileUpdateWeight
  \/ UpdateWeights
  \/ Login
  \/ Logout
  \/ Index
  \/ DeleteFile
  \/ ViewFile
  \/ UpdateWeight
  \/ ExportWeights

SpecWeb == InitWeb /\ [][NextWeb]_vars

\* C20: every route but the login page and the login handler is protected:
\* a request without a logged-in session reads and writes no files, file
\* data or weights, and is redirected to /login or rejected
C20_NoSessionNoAccess ==
  (access.route \notin {"none", "/login"} /\ ~access.session) =>
    /\ access.read = {}
    /\ access.wrote = {}
    /\ access.status \in {"redirect:/login", "401", "403"}

----------------------------------------------------------------------------
(* The server that keeps its sessions in the database *)

AUTHORIZED_USERS == {"naemura", "iwatsuki"}

\* isValidPassword(password)
isValidPassword(password) ==
  Len(password) = 4 /\ \A i \in 1..4 : IsDigit(password[i])

\* canEditWeights(username)
canEditWeights(username) == username \in AUTHORIZED_USERS

\* the life of a session, 24 * 60 * 60 * 1000 ms, in hours
SessionHours == 24

\* the hours that pass in one step of the clock
ClockStep == 12

MaxClock == 36

MaxSessions == 1

\* the values of crypto.randomBytes(32), numbered in the order they come
SessionIds == 1..MaxSessions

\* the session_id cookies requests carry: none (0), or an id the server has
\* issued or has yet to issue
Cookies == 0..MaxSessions

\* the call to the database that fails during a request, if any
Faults == {"none", "list", "delete", "write"}

\* the user names and passwords posted to /login; "" and <<>> are a
\* missing field
AuthUsernames == {"naemura", "mallory", ""}

AuthPasswords == { <<"1", "2", "3", "4">>, <<"1", "2", "3">>, <<>> }

\* the weights posted
AuthWeights == { Str(<<"5", "0", "0">>), Str(<<"0">>), Str(<<"a">>) }

\* the documents of the sessions collection with this session_id
WithId(stored, sessionId) == {d \in stored : d.session_id = sessionId}

\* getSession accepting a session whatever its expires_at
getSession_NoExpiry(sessionId, stored, time, listOk, delOk) ==
  IF sessionId = 0 \/ ~listOk \/ WithId(stored, sessionId) = {}
  THEN [found |-> FALSE, doc |-> {}, left |-> stored]
  ELSE [found |-> TRUE, doc |-> WithId(stored, sessionId), left |-> stored]

\* getSession(sessionId) at the hour time: the session found (doc holds it,
\* or nothing) and the sessions left in the collection; listOk and delOk
\* tell whether listDocuments and deleteDocument succeed
getSession(sessionId, stored, time, listOk, delOk) ==
  IF sessionId = 0 \/ ~listOk \/ WithId(stored, sessionId) = {}
  THEN [found |-> FALSE, doc |-> {}, left |-> stored]
  ELSE LET found == CHOOSE d \in WithId(stored, sessionId) : TRUE
       IN  IF found.expires_at < time
           THEN [found |-> FALSE, doc |-> {},
                 left |-> IF delOk THEN stored \ {found} ELSE stored]
           ELSE [found |-> TRUE, doc |-> {found}, left |-> stored]

\* deleteSession(sessionId): the sessions left in the collection
deleteSession(sessionId, stored, listOk, delOk) ==
  IF sessionId = 0 \/ ~listOk \/ WithId(stored, sessionId) = {} \/ ~delOk
  THEN stored
  ELSE stored \ {CHOOSE d \in WithId(stored, sessionId) : TRUE}

\* requireWeightEditAuth letting every session through
MayEdit_AnySession(got) == got.found

\* requireWeightEditAuth: session && session.can_edit_weights
MayEdit(got) == got.found /\ \A d \in got.doc : d.can_edit_weights

Reply(route, cookie, status, ran, failed) ==
  [route |-> route, cookie |-> cookie, status |-> status, ran |-> ran,
   username |-> "", password |-> <<>>, failed |-> failed]

InitAuth ==
  /\ sessions = {}
  /\ issued = {}
  /\ ended = {}
  /\ now = 0
  /\ fileDocs = [f \in FileIds |-> Null]
  /\ reply = NoReply
  /\ EngineIdle /\ BatchIdle /\ UploadIdle /\ WebIdle /\ DbIdle

\* time passing
Tick ==
  /\ now + ClockStep <= MaxClock
  /\ now' = now + ClockStep
  /\ UNCHANGED <<sessions, issued, ended, fileDocs, reply,
                 engineVars, batchVars, uploadVars, webVars, dbVars>>

\* POST /login; createOk tells whether createSession's createDocument succeeds
AuthLogin ==
  \E username \in AuthUsernames, password \in AuthPasswords, createOk \in BOOLEAN :
    LET form(r) == [r EXCEPT !.username = username, !.password = password]
    IN  /\ IF username = "" \/ password = <<>> \/ ~isValidPassword(password)
           THEN /\ reply' = form(Reply("/login", 0, "render:login", TRUE, FALSE))
                /\ UNCHANGED <<sessions, issued>>
           ELSE IF ~createOk
           THEN /\ reply' = form(Reply("/login", 0, "render:login", TRUE, TRUE))
                /\ UNCHANGED <<sessions, issued>>
           ELSE /\ issued # SessionIds
                /\ LET sessionId == CHOOSE i \in SessionIds \ issued :
                                      \A j \in SessionIds \ issued : i <= j
                   IN  /\ sessions' = sessions \cup
                            {[session_id |-> sessionId, username |-> username,
                              can_edit_weights |-> canEditWeights(username),
                              created_at |-> now, expires_at |-> now + SessionHours]}
                       /\ issued' = issued \cup {sessionId}
                       /\ reply' = form(Reply("/login", sessionId, "redirect:/", TRUE, FALSE))
        /\ UNCHANGED <<ended, now, fileDocs,
                       engineVars, batchVars, uploadVars, webVars, dbVars>>

\* GET /logout; ended keeps the cookies whose logout has completed
AuthLogout ==
  \E cookie \in Cookies, fault \in Faults \ {"write"} :
    /\ sessions' = deleteSession(cookie, sessions, fault # "list", fault # "delete")
    /\ ended' = IF cookie = 0 THEN ended ELSE ended \cup {cookie}
    /\ reply' = Reply("/logout", cookie, "redirect:/login", TRUE, fault # "none")
    /\ UNCHANGED <<issued, now, fileDocs,
                   engineVars, batchVars, uploadVars, webVars, dbVars>>

\* GET / behind requireAuth
AuthIndex ==
  \E cookie \in Cookies, fault \in Faults \ {"write"} :
    LET got == getSession(cookie, sessions, now, fault # "list", fault # "delete")
    IN  /\ sessions' = got.left
        /\ reply' = Reply("/", cookie,
                          IF got.found THEN "render:index" ELSE "redirect:/login",
                          got.found, fault # "none")
        /\ UNCHANGED <<issued, ended, now, fileDocs,
                       engineVars, batchVars, uploadVars, webVars, dbVars>>

\* POST /files/:id/update-weight behind requireWeightEditAuth
AuthFileUpdateWeight ==
  \E cookie \in Cookies, fileId \in FileIds, posted \in AuthWeights, fault \in Faults :
    LET got     == getSession(cookie, sessions, now, fault # "list", fault # "delete")
        weight  == parseFloat(posted)
        io      == fault \in {"list", "delete"}
        writeOk == fault # "write"
    IN  /\ sessions' = got.left
        /\ IF ~MayEdit(got)
           THEN /\ reply' = Reply("/files/:id/update-weight", cookie, "403", FALSE, io)
                /\ fileDocs' = fileDocs
           ELSE IF ~IsNum(weight) \/ weight.n = 0
           THEN /\ reply' = Reply("/files/:id/update-weight", cookie, "400", TRUE, io)
                /\ fileDocs' = fileDocs
           ELSE IF ~writeOk
           THEN /\ reply' = Reply("/files/:id/update-weight", cookie, "500", TRUE, TRUE)
                /\ fileDocs' = fileDocs
           ELSE /\ reply' = Reply("/files/:id/update-weight", cookie, "redirect:/files/:id",
                                  TRUE, io)
                /\ fileDocs' = [fileDocs EXCEPT ![fileId] = weight]
        /\ UNCHANGED <<issued, ended, now,
                       engineVars, batchVars, uploadVars, webVars, dbVars>>

\* the weights of a batch written one after the other until the one at
\* failAt, if it is written at all, fails
RECURSIVE WriteWeights(_, _, _, _)
WriteWeights(items, k, failAt, docs) ==
  IF k > Len(items) THEN [docs |-> docs, failed |-> FALSE]
  ELSE LET weightValue == parseFloat(items[k].weight)
       IN  IF items[k].fileId \in FileIds /\ IsNum(weightValue)
           THEN IF k = failAt THEN [docs |-> docs, failed |-> TRUE]
                ELSE WriteWeights(items, k + 1, failAt,
                                  [docs EXCEPT ![items[k].fileId] = weightValue])
           ELSE WriteWeights(items, k + 1, failAt, docs)

\* the bodies posted to /update-weights: req.body.weights, a fileId of ""
\* being a missing one, or something that is no array
WeightBatches ==
  { <<>>,
    <<[fileId |-> "f1", weight |-> Str(<<"5", "0", "0">>)]>>,
    <<[fileId |-> "f1", weight |-> Str(<<"5", "0", "0">>)],
      [fileId |-> "f2", weight |-> Str(<<"5", "0", "0">>)]>>,
    <<[fileId |-> "", weight |-> Str(<<"5", "0", "0">>)],
      [fileId |-> "f2", weight |-> Str(<<"a">>)]>> }

\* POST /update-weights behind requireWeightEditAuth; isArray tells whether
\* req.body.weights is an array, failAt which updateDocument fails
AuthUpdateWeights ==
  \E cookie \in Cookies, weights \in WeightBatches, isArray \in BOOLEAN,
     fault \in Faults \ {"write"} :
    \E failAt \in 0..(IF isArray THEN Len(weights) ELSE 0) :
      LET got == getSession(cookie, sessions, now, fault # "list", fault # "delete")
          out == WriteWeights(weights, 1, failAt, fileDocs)
          io  == fault # "none"
      IN  /\ sessions' = got.left
          /\ IF ~MayEdit(got)
             THEN /\ reply' = Reply("/update-weights", cookie, "403", FALSE, io)
                  /\ fileDocs' = fileDocs
             ELSE IF ~isArray
             THEN /\ reply' = Reply("/update-weights", cookie, "400", TRUE, io)
                  /\ fileDocs' = fileDocs
             ELSE /\ reply' = Reply("/update-weights", cookie,
                                    IF out.failed THEN "500" ELSE "json:success",
                                    TRUE, io \/ out.failed)
                  /\ fileDocs' = out.docs
          /\ UNCHANGED <<issued, ended, now,
                         engineVars, batchVars, uploadVars, webVars, dbVars>>

NextAuth ==
  \/ Tick
  \/ AuthLogin
  \/ AuthLogout
  \/ AuthIndex
  \/ AuthFileUpdateWeight
  \/ AuthUpdateWeights

SpecAuth == InitAuth /\ [][NextAuth]_vars

----------------------------------------------------------------------------
(* Logging in *)

\* POST /login of the Postgres server answers with the redirect into the
\* application, the session then being logged in as the user posted, exactly
\* when the user is one of the three and the password is four digits
LoginRuleWeb ==
  access.route = "/login" =>
    /\ access.status = "redirect:/" <=>
         (access.form[1] \in validUsernames /\ FourDigits(access.form[2]))
    /\ access.status = "redirect:/" =>
         (session.loggedIn /\ session.username = access.form[1])

\* POST /login of the server with sessions in the database creates a session
\* exactly when the user is one of the three and the password is four
\* digits, the database answering
LoginRuleAuth ==
  /\ (reply.route = "/login" /\ ~reply.failed) =>
       (reply.status = "redirect:/" <=>
          (reply.username \in validUsernames /\ FourDigits(reply.password)))
  /\ \A d \in sessions : d.username \in validUsernames

\* C21: a login attempt establishes a logged-in session if and only if the
\* user name is hinkan, naemura or iwatsuki and the password is exactly four
\* digits; no other user name ever obtains a session
C21_SessionIffAuthorizedUser == LoginRuleWeb /\ LoginRuleAuth

----------------------------------------------------------------------------
(* Sessions kept in the database *)

\* the routes behind requireAuth or requireWeightEditAuth
WeightRoutes == {"/files/:id/update-weight", "/update-weights"}

GuardedRoutes == {"/"} \cup WeightRoutes

\* the step is a request to a guarded route; reply' is its response
GuardedRequest == now' = now /\ reply'.route \in GuardedRoutes

\* the collection holds a session with this id that has not expired
Live(cookie) == \E d \in sessions : d.session_id = cookie /\ d.expires_at >= now

\* the collection holds a session with this id whose expires_at is past
Expired(cookie) == \E d \in sessions : d.session_id = cookie /\ d.expires_at < now

\* what every lookup does: the handler runs only for a session that has
\* not expired and is no older than its 24 hours, and a request with an
\* expired session is turned away, by requireAuth to /login
ExpiredIsRefused ==
  /\ reply'.ran =>
       \E d \in sessions : /\ d.session_id = reply'.cookie
                           /\ d.expires_at >= now
                           /\ now <= d.created_at + SessionHours
  /\ Expired(reply'.cookie) =>
       /\ ~reply'.ran
       /\ reply'.route = "/" => reply'.status = "redirect:/login"

\* C25: getSession never returns a session whose expires_at is past; a
\* session is accepted until 24 hours after its creation, and the first
\* lookup of an expired session deletes it from storage and counts as no
\* session, requireAuth redirecting to /login
C25_ExpiredSessionIsDeleted ==
  [][GuardedRequest =>
       /\ ExpiredIsRefused
       /\ Expired(reply'.cookie) => WithId(sessions', reply'.cookie) = {}]_vars

\* C25 as the code has it: an expired session is never returned and counts
\* as no session at every lookup; the lookup deletes it from storage unless
\* listDocuments or deleteDocument fails, and then it stays stored
C25_ExpiredSessionIsRefused ==
  [][GuardedRequest =>
       /\ ExpiredIsRefused
       /\ (Expired(reply'.cookie) /\ ~reply'.failed) =>
            WithId(sessions', reply'.cookie) = {}
       /\ (Expired(reply'.cookie) /\ reply'.failed) => sessions' = sessions]_vars

\* a session that was never logged out is gone from the collection after a
\* request with its cookie was sent to /login: its lookup found it expired
C25_Witness ==
  /\ reply.route = "/"
  /\ reply.status = "redirect:/login"
  /\ ~reply.failed
  /\ reply.cookie \in issued \ ended
  /\ WithId(sessions, reply.cookie) = {}

\* C26: once a /logout for a session id has completed, every later request
\* with that session_id cookie is redirected to /login by requireAuth and
\* refused by requireWeightEditAuth
C26_LoggedOutIdIsRefused ==
  [][(GuardedRequest /\ reply'.cookie \in ended) =>
       /\ ~reply'.ran
       /\ reply'.status = IF reply'.route = "/" THEN "redirect:/login" ELSE "403"]_vars

\* the collection holds a live session with this id made for naemura or
\* iwatsuki
LiveEditor(cookie) ==
  \E d \in sessions : /\ d.session_id = cookie
                      /\ d.username \in {"naemura", "iwatsuki"}
                      /\ d.expires_at >= now

\* C27: a weight is changed through /files/:id/update-weight or
\* /update-weights only by a request whose live session was made for
\* naemura or iwatsuki; every other request gets 403 and changes no weight
C27_OnlyEditorsChangeWeights ==
  [][/\ fileDocs' # fileDocs =>
          (reply'.route \in WeightRoutes /\ LiveEditor(reply'.cookie))
     /\ (now' = now /\ reply'.route \in WeightRoutes /\ ~LiveEditor(reply'.cookie)) =>
          (reply'.status = "403" /\ fileDocs' = fileDocs)]_vars

\* naemura's session has stored a weight, after mallory's was refused
C27_Witness ==
  /\ reply.route = "/files/:id/update-weight"
  /\ reply.status = "redirect:/files/:id"
  /\ \E d \in sessions : d.session_id = reply.cookie /\ d.username = "naemura"
  /\ fileDocs["f1"] = Num(500 * Scale)

----------------------------------------------------------------------------
(* The engine of the database-session server *)

\* the mapping with a rule of label A changed
measurementMappingAuth_AFromY ==
  [i \in 1..Len(measurementMapping) |->
     IF measurementMapping[i].key = "A"
     THEN [key |-> "A", val |-> Direct(1, "PT-COMP", "y", TRUE)]
     ELSE measurementMapping[i]]

measurementMappingAuth ==
  << [key |-> "A",  val |-> Direct(1, "PT-COMP", "x", TRUE)],
     [key |-> "B",  val |-> Direct(9, "CIRCLE", "diameter", FALSE)],
     [key |-> "C",  val |-> Direct(1, "DISTANCE", "y", TRUE)],
     [key |-> "D",  val |-> Direct(4, "PT-COMP", "x", TRUE)],
     [key |-> "E",  val |-> Direct(8, "CIRCLE", "diameter", FALSE)],
     [key |-> "F",  val |-> Average(<< Ref(2, "CIRCLE", "diameter"),
                                       Ref(4, "CIRCLE", "diameter"),
                                       Ref(5, "CIRCLE", "diameter"),
                                       Ref(6, "CIRCLE", "diameter") >>)],
     [key |-> "G1", val |-> Direct(10, "CIRCLE", "diameter", FALSE)],
     [key |-> "G2", val |-> Direct(11, "CIRCLE", "diameter", FALSE)],
     [key |-> "G3", val |-> Direct(12, "CIRCLE", "diameter", FALSE)],
     [key |-> "G4", val |-> Direct(13, "CIRCLE", "diameter", FALSE)],
     [key |-> "H",  val |-> Direct(2, "DISTANCE", "y", TRUE)],
     [key |-> "I",  val |-> Direct(15, "CIRCLE", "diameter", FALSE)],
     [key |-> "J",  val |-> Direct(7, "CIRCLE", "diameter", FALSE)],
     [key |-> "K",  val |-> Direct(2, "PT-COMP", "x", TRUE)],
     [key |-> "L",  val |-> Direct(14, "CIRCLE", "diameter", FALSE)],
     [key |-> "M",  val |-> ByHand("MANUAL")],
     [key |-> "N",  val |-> ByHand("VISUAL")] >>

processFileDataForMeasurementsAuth(dataPoints) ==
  [i \in 1..Len(measurementMappingAuth) |->
     LET key == measurementMappingAuth[i].key
     IN  [key |-> key,
          val |-> ResultFor(extractValue(dataPoints, measurementMappingAuth[i].val),
                            Get(validationRanges, key))]]

\* GET /summary of the database-session server, as far as the report of one
\* file
AuthSummary ==
  /\ measurementsAuth' = processFileDataForMeasurementsAuth(documents)
  /\ UNCHANGED <<documents, measurements, gValue, fileData, pc,
                 batchVars, uploadVars, webVars, authVars, dbVars>>

NextVariants == Summary \/ AuthSummary

\* both servers reporting on the same documents
SpecVariants == Init /\ [][NextVariants]_vars

\* the place of label k in the mapping of the database-session server
AuthPlaceOf(k) ==
  CHOOSE i \in 1..Len(measurementMappingAuth) : measurementMappingAuth[i].key = k

\* both servers have reported
BothReported == pc = "rendered" /\ measurementsAuth # <<>>

\* C23: the mapping tables of the two servers agree rule for rule on every
\* one of the 17 labels but K, which one derives from field y and the other
\* from field x of the same (index, type) with absolute = true; so for every
\* set of documents the two reports are equal on every label other than K
C23_VariantsAgreeButOnK ==
  /\ Len(measurementMapping) = 17
  /\ Len(measurementMappingAuth) = 17
  /\ \A i \in 1..17 :
       /\ measurementMappingAuth[i].key = measurementMapping[i].key
       /\ measurementMapping[i].key # "K" =>
            measurementMappingAuth[i].val = measurementMapping[i].val
  /\ LET k == measurementMapping[PlaceOf("K")].val
         a == measurementMappingAuth[AuthPlaceOf("K")].val
     IN  /\ k.field = "y" /\ a.field = "x"
         /\ k.index = a.index /\ k.type = a.type
         /\ k.absolute /\ a.absolute
  /\ BothReported =>
       /\ Len(measurementsAuth) = Len(measurements)
       /\ \A i \in 1..Len(measurements) :
            measurements[i].key # "K" => measurementsAuth[i] = measurements[i]

\* both servers have reported on a point (2, PT-COMP) whose x and y differ,
\* and their reports differ on K
C23_Witness ==
  /\ BothReported
  /\ \E i \in 1..Len(documents) :
       /\ documents[i].index = 2 /\ documents[i].data_type = "PT-COMP"
       /\ documents[i].x # documents[i].y
  /\ measurementsAuth[AuthPlaceOf("K")] # measurements[PlaceOf("K")]

----------------------------------------------------------------------------
(* Weights in the Postgres server *)

\* the routes that write to file_weights
PgWeightRoutes ==
  {"/update-weight", "/update-weights", "/files/:id/update-weight", "/import-weights"}

\* C28: a session logged in as hinkan can never change a stored weight:
\* every route that writes to file_weights answers it with 403 and leaves
\* file_weights as it is
C28_HinkanNeverChangesWeight ==
  (access.route \in PgWeightRoutes /\ access.user = "hinkan") =>
    (access.status = "403" /\ access.wrote = {})

\* a weight that is missing or is no number
NoNumber(weight) == Trim(weight.s) = <<>> \/ ~IsNum(NumberOf(weight))

\* C30: the batch of /update-weights is all or nothing: with an entry that
\* is invalid (no fileId, no weight, a weight that is no number) or a write
\* that fails no weight of the batch is stored and the response reports
\* failure; otherwise every entry is stored and the response reports success
C30_BatchIsAllOrNothing ==
  [][(access'.route = "/update-weights" /\ access'.status # "403") =>
       LET items == access'.form
       IN  IF \/ access'.failed
              \/ \E k \in 1..Len(items) :
                   items[k].fileId = "" \/ NoNumber(items[k].weight)
           THEN access'.status = "500" /\ files' = files
           ELSE /\ access'.status = "json:success"
                /\ \A k \in 1..Len(items) :
                     files'[items[k].fileId] =
                       FileRow(toFixed1(ParseFloatStr(items[k].weight.s)))
                /\ \A f \in FileIds :
                     (\A k \in 1..Len(items) : items[k].fileId # f) =>
                       files'[f] = files[f]]_vars

----------------------------------------------------------------------------
(* Requests of the Postgres servers sharing the pool and the tables *)

\* the requests in flight at a time
MaxRequests == 2

\* new Pool({ max: 1, connectionTimeoutMillis: 10000 }) and the pool with the
\* default size
PoolMax == 1
DefaultPoolMax == 10

\* the startup pool.connect(callback) never calls done: when the connection
\* was made it stays checked out
Pools ==
  { [server |-> "app.js", max |-> PoolMax, busy |-> 0],
    [server |-> "app.js", max |-> PoolMax, busy |-> 1],
    [server |-> "part_002", max |-> DefaultPoolMax, busy |-> 0] }

\* one file "a" with a data point and a weight
StoredTables ==
  [files |-> << [id |-> 1, filename |-> "a"] >>,
   file_data |-> { [file_id |-> 1, from |-> 0] },
   file_weights |-> { [file_id |-> 1, weight |-> Dec(1, 0)] },
   serial |-> 1]

\* path.basename(fileNameWithExt, path.extname(fileNameWithExt)) of the
\* uploaded files
UploadNames == {"a", "b"}

\* req.body.overwriteAction, "" when the form has none
PostedActions == {"", "skip", "overwrite"}

\* req.body.fileId, 0 when the form has none
PostedFileIds == {0, 1, 2}

\* the statement of /delete-file that fails
DeleteFaults == {"none", "begin", "second", "commit"}

NewUpload(name, posted) ==
  [kind |-> "upload", pc |-> "new", name |-> name, posted |-> posted,
   fileId |-> 0, fault |-> "none", status |-> "none"]

NewDelete(fileId, fault) ==
  [kind |-> "delete", pc |-> "new", name |-> "", posted |-> "",
   fileId |-> fileId, fault |-> fault, status |-> "none"]

InitDb ==
  /\ pool \in Pools
  /\ tables = StoredTables
  /\ reqs = <<>>
  /\ EngineIdle /\ BatchIdle /\ UploadIdle /\ WebIdle /\ AuthIdle

\* a request reaches the server
Arrive ==
  /\ Len(reqs) < MaxRequests
  /\ \/ \E name \in UploadNames, posted \in PostedActions :
          reqs' = Append(reqs, NewUpload(name, posted))
     \/ \E fileId \in PostedFileIds, fault \in DeleteFaults :
          reqs' = Append(reqs, NewDelete(fileId, fault))
  /\ UNCHANGED <<pool, tables, engineVars, batchVars, uploadVars, webVars, authVars>>

\* the response is sent and the client, when there is one, released
Done(r, status, held) ==
  /\ reqs' = [reqs EXCEPT ![r].pc = "done", ![r].status = status]
  /\ pool' = IF held THEN [pool EXCEPT !.busy = @ - 1] ELSE pool

\* SELECT id FROM files WHERE filename = $1
IdsOf(name, tbl) ==
  {tbl.files[i].id : i \in {j \in 1..Len(tbl.files) : tbl.files[j].filename = name}}

FileIdsIn(tbl) == {tbl.files[i].id : i \in 1..Len(tbl.files)}

\* the action of the form taken as it is
OverwriteAction_NoDefault(posted) == posted

\* req.body.overwriteAction || "skip"
OverwriteAction(posted) == IF posted = "" THEN "skip" ELSE posted

\* client = await pool.connect()
Connect(r) ==
  /\ reqs[r].pc = "new"
  /\ pool.busy < pool.max
  /\ pool' = [pool EXCEPT !.busy = @ + 1]

\* /upload: the connection is made
UploadConnect ==
  \E r \in 1..Len(reqs) :
    /\ reqs[r].kind = "upload"
    /\ Connect(r)
    /\ reqs' = [reqs EXCEPT ![r].pc = "check"]
    /\ UNCHANGED <<tables, engineVars, batchVars, uploadVars, webVars, authVars>>

\* pool.connect() rejects after connectionTimeoutMillis with every client
\* checked out
ConnectTimeout ==
  \E r \in 1..Len(reqs) :
    /\ reqs[r].pc = "new"
    /\ ~(reqs[r].kind = "delete" /\ reqs[r].fileId = 0 /\ pool.server = "part_002")
    /\ pool.server = "app.js"
    /\ pool.busy >= pool.max
    /\ Done(r, "500", FALSE)
    /\ UNCHANGED <<tables, engineVars, batchVars, uploadVars, webVars, authVars>>

\* /upload: the existence check and the branch taken on it
UploadCheck ==
  \E r \in 1..Len(reqs) :
    /\ reqs[r].kind = "upload" /\ reqs[r].pc = "check"
    /\ LET ids == IdsOf(reqs[r].name, tables)
           overwriteAction == OverwriteAction(reqs[r].posted)
       IN  IF ids # {} /\ overwriteAction = "skip"
           THEN Done(r, "redirect", TRUE)
           ELSE /\ pool' = pool
                /\ IF ids # {} /\ overwriteAction = "overwrite"
                   THEN \E existingFileId \in ids :
                          reqs' = [reqs EXCEPT ![r].pc = "delete",
                                               ![r].fileId = existingFileId]
                   ELSE reqs' = [reqs EXCEPT ![r].pc = "insert"]
    /\ UNCHANGED <<tables, engineVars, batchVars, uploadVars, webVars, authVars>>

\* /upload: DELETE FROM file_data WHERE file_id = existingFileId
UploadDelete ==
  \E r \in 1..Len(reqs) :
    /\ reqs[r].kind = "upload" /\ reqs[r].pc = "delete"
    /\ tables' = [tables EXCEPT
                    !.file_data = {d \in @ : d.file_id # reqs[r].fileId}]
    /\ reqs' = [reqs EXCEPT ![r].pc = "lines"]
    /\ UNCHANGED <<pool, engineVars, batchVars, uploadVars, webVars, authVars>>

\* /upload: INSERT INTO files (filename) VALUES ($1) RETURNING id
UploadInsert ==
  \E r \in 1..Len(reqs) :
    /\ reqs[r].kind = "upload" /\ reqs[r].pc = "insert"
    /\ LET id == tables.serial + 1
       IN  /\ tables' = [tables EXCEPT
                           !.serial = id,
                           !.files = Append(@, [id |-> id, filename |-> reqs[r].name])]
           /\ reqs' = [reqs EXCEPT ![r].pc = "lines", ![r].fileId = id]
    /\ UNCHANGED <<pool, engineVars, batchVars, uploadVars, webVars, authVars>>

\* /upload: the lines are inserted, each failure caught and logged (a line
\* of a file whose record is gone breaks the foreign key), and the response
\* sent
UploadStore ==
  \E r \in 1..Len(reqs) :
    /\ reqs[r].kind = "upload" /\ reqs[r].pc = "lines"
    /\ tables' = IF reqs[r].fileId \in FileIdsIn(tables)
                 THEN [tables EXCEPT !.file_data =
                         @ \cup { [file_id |-> reqs[r].fileId, from |-> r] }]
                 ELSE tables
    /\ Done(r, "redirect", TRUE)
    /\ UNCHANGED <<engineVars, batchVars, uploadVars, webVars, authVars>>

\* the three DELETE statements of /delete-file
DeleteRows(fileId, tbl) ==
  [tbl EXCEPT
     !.file_data = {d \in @ : d.file_id # fileId},
     !.file_weights = {w \in @ : w.file_id # fileId},
     !.files = SelectSeq(@, LAMBDA f : f.id # fileId)]

\* the transaction keeping the rows deleted before a statement failed
DeleteFileTx_NoRollback(server, fileId, fault, tbl) ==
  IF fault = "begin" THEN [status |-> "500", tbl |-> tbl]
  ELSE IF server = "part_002" /\ fileId \notin FileIdsIn(tbl)
  THEN [status |-> "404", tbl |-> tbl]
  ELSE IF fault = "second"
  THEN [status |-> "500",
        tbl |-> IF server = "app.js"
                THEN [tbl EXCEPT !.file_data = {d \in @ : d.file_id # fileId}]
                ELSE [tbl EXCEPT !.file_weights = {w \in @ : w.file_id # fileId}]]
  ELSE IF fault = "commit" THEN [status |-> "500", tbl |-> DeleteRows(fileId, tbl)]
  ELSE [status |-> "success", tbl |-> DeleteRows(fileId, tbl)]

\* BEGIN ... COMMIT of /delete-file, and ROLLBACK in the catch: the response
\* and the tables after it
DeleteFileTx(server, fileId, fault, tbl) ==
  IF fault = "begin" THEN [status |-> "500", tbl |-> tbl]
  ELSE IF server = "part_002" /\ fileId \notin FileIdsIn(tbl)
  THEN [status |-> "404", tbl |-> tbl]
  ELSE IF fault # "none" THEN [status |-> "500", tbl |-> tbl]
  ELSE [status |-> "success", tbl |-> DeleteRows(fileId, tbl)]

\* /delete-file: the connection is made, or the request is refused for the
\* want of a fileId
DeleteConnect ==
  \E r \in 1..Len(reqs) :
    /\ reqs[r].kind = "delete" /\ reqs[r].pc = "new"
    /\ IF pool.server = "part_002" /\ reqs[r].fileId = 0
       THEN Done(r, "400", FALSE)
       ELSE /\ Connect(r)
            /\ reqs' = [reqs EXCEPT ![r].pc = "tx"]
    /\ UNCHANGED <<tables, engineVars, batchVars, uploadVars, webVars, authVars>>

\* /delete-file: the transaction and the response
DeleteRun ==
  \E r \in 1..Len(reqs) :
    /\ reqs[r].kind = "delete" /\ reqs[r].pc = "tx"
    /\ LET out == DeleteFileTx(pool.server, reqs[r].fileId, reqs[r].fault, tables)
       IN  /\ tables' = out.tbl
           /\ Done(r, out.status, TRUE)
    /\ UNCHANGED <<engineVars, batchVars, uploadVars, webVars, authVars>>

NextDb ==
  \/ Arrive
  \/ UploadConnect
  \/ ConnectTimeout
  \/ UploadCheck
  \/ UploadDelete
  \/ UploadInsert
  \/ UploadStore
  \/ DeleteConnect
  \/ DeleteRun

SpecDb == InitDb /\ [][NextDb]_vars

\* the upload requests whose form asks to skip an existing name, or names
\* no action
AsksSkip(r) == reqs[r].kind = "upload" /\ reqs[r].posted \in {"", "skip"}

\* C22: an upload of a name that already exists, with overwrite action
\* "skip" or with none, leaves the tables files, file_data and file_weights
\* as they are and ends the handling of the file: no record is created and
\* no data point or weight altered
C22_SkipLeavesTablesUnchanged ==
  [][\A r \in 1..Len(reqs) :
       (/\ AsksSkip(r)
        /\ reqs[r].pc = "check" /\ reqs'[r].pc # "check"
        /\ IdsOf(reqs[r].name, tables) # {}) =>
         (tables' = tables /\ reqs'[r].pc = "done" /\ reqs'[r].status = "redirect")]_vars

\* an upload of the stored name "a" without an action has been answered and
\* the tables are as they were
C22_Witness ==
  /\ tables = StoredTables
  /\ \E r \in 1..Len(reqs) :
       /\ reqs[r] = [NewUpload("a", "") EXCEPT !.pc = "done", !.status = "redirect"]

\* C24: the files table never holds two records with the same filename,
\* whatever the interleaving of uploads with action "skip" or "overwrite"
C24_NoTwoRecordsWithOneName ==
  \A i, j \in 1..Len(tables.files) :
    tables.files[i].filename = tables.files[j].filename => i = j

\* the rows of the three tables that belong to file fileId
RowsFor(fileId, tbl) ==
  [files |-> {rec \in {tbl.files[i] : i \in 1..Len(tbl.files)} : rec.id = fileId},
   file_data |-> {d \in tbl.file_data : d.file_id = fileId},
   file_weights |-> {w \in tbl.file_weights : w.file_id = fileId}]

NoRows == [files |-> {}, file_data |-> {}, file_weights |-> {}]

\* C29: /delete-file is all or nothing: when the request completes, either
\* the response reports success and the file has no row left in files,
\* file_data and file_weights, or it reports an error and the three tables
\* are exactly as before
C29_DeleteIsAllOrNothing ==
  [][\A r \in 1..Len(reqs) :
       (reqs[r].kind = "delete" /\ reqs[r].pc # "done" /\ reqs'[r].pc = "done") =>
         \/ /\ reqs'[r].status = "success"
            /\ RowsFor(reqs[r].fileId, tables') = NoRows
            /\ \A f \in FileIdsIn(tables) \ {reqs[r].fileId} :
                 RowsFor(f, tables') = RowsFor(f, tables)
         \/ /\ reqs'[r].status \in {"400", "404", "500"}
            /\ tables' = tables]_vars

\* a deletion of file 1 whose second DELETE failed has been answered with
\* an error and the file still has its record, its data point and its weight
C29_Witness ==
  /\ \E r \in 1..Len(reqs) :
       reqs[r] = [NewDelete(1, "second") EXCEPT !.pc = "done", !.status = "500"]
  /\ tables = StoredTables

====
